---- MODULE Spec2Model ----
(***************************************************************************)
(* Bitcoin inscription scanner: the inscription parser                     *)
(* (src/src/parser/inscription.rs) and the parallel block driver           *)
(* (src/src/parser/parallel.rs).                                           *)
(*                                                                         *)
(* A script is modelled by the item sequence that script.instructions()    *)
(* yields: Ok(Instruction::Op(code)), Ok(Instruction::PushBytes(data)) or  *)
(* Err(_).  The iterator of the bitcoin crate is exhausted after it has    *)
(* yielded an Err, so an Err item is always the last item of a stream.     *)
(* Byte strings are sequences of integers 0..255; a Rust String is         *)
(* modelled by its UTF-8 encoding.                                         *)
(***************************************************************************)
EXTENDS Integers, Sequences, FiniteSets, TLC

VARIABLES
    script_sig, \* SpecCoinbase: the signature script handed to extract_text_from_script
    ex,         \* SpecCoinbase: position and locals of extract_text_from_script
    script,     \* SpecScript: the output script handed to parse_script
    ps,         \* SpecScript: position and locals of parse_script / parse_inscription_content
    tx,         \* Spec: the transaction handed to parse_transaction
    pt,         \* Spec: position and return value of parse_transaction
    blocks,     \* SpecDriver: the Vec<Block> handed to process_blocks
    batch_size, \* SpecDriver: ParallelParser::batch_size
    dpc,        \* SpecDriver: position of process_blocks
    slots,      \* SpecDriver: per-transaction results of the parallel filter_map
    returned,   \* SpecDriver: the collected return value, each entry with its origin
    scan,       \* SpecScan: position and locals of main, and the node it talks to
    ser,        \* SpecSerde: an Inscription, its serialized form and what is read back
    img,        \* SpecImage: the image directory and a store / get call pair
    txt,        \* SpecText: the text log file and the calls made on it
    node        \* SpecNode: the semaphore of a NodeClient and the calls in progress

vars ==
    <<script_sig, ex, script, ps, tx, pt, blocks, batch_size, dpc, slots, returned,
      scan, ser, img, txt, node>>

(***************************************************************************)
(* Bounds of the model.                                                    *)
(***************************************************************************)
\* items of an output script after an accepted lead-in (zero form, OP_IF)
MaxEnvelopeLen == 4
\* items of an output script after a rejected two-item lead-in
MaxRestLen == 1
\* items of the signature script of a coinbase input
MaxSigLen == 4
\* inputs of a transaction
MaxInputs == 2
\* outputs of a transaction
MaxOutputs == 2
\* blocks of a batch handed to process_blocks
MaxBlocks == 2
\* transactions of a batch, over all its blocks
MaxBatchTxs == 3
\* largest configured batch_size
MaxBatchSize == 2
\* u64::MAX, scaled down: heights and sums of heights live in 0..U64Max
U64Max == 15
\* bytes of a txid (32 in the program)
TxidLen == 2
\* longest Text or Unknown payload of a serialized Inscription
MaxPayloadLen == 2
\* longest mime_type and longest data of a serialized Image
MaxImageFieldLen == 1
\* most store calls on one text log
MaxStores == 2
\* largest node.max_concurrent_requests
MaxPermits == 2
\* tasks that call the NodeClient concurrently
MaxCallers == 3

(***************************************************************************)
(* Opcodes (bitcoin::opcodes).  OP_0 and OP_FALSE name the same opcode.    *)
(***************************************************************************)
OP_0 == 0
OP_FALSE == 0
OP_IF == 99
OP_ENDIF == 104

(***************************************************************************)
(* Option<T>.                                                              *)
(***************************************************************************)
None == [tag |-> "None"]
Some(v) == [tag |-> "Some", value |-> v]

(***************************************************************************)
(* Instruction stream items.                                               *)
(***************************************************************************)
Op(code) == [kind |-> "Op", op |-> code]
PushBytes(bytes) == [kind |-> "PushBytes", data |-> bytes]
Err == [kind |-> "Err"]

\* b"text/plain;charset=utf-8"
TextPlain ==
    << 116, 101, 120, 116, 47, 112, 108, 97, 105, 110, 59, 99, 104, 97,
       114, 115, 101, 116, 61, 117, 116, 102, 45, 56 >>
\* b"image/"
ImagePrefix == << 105, 109, 97, 103, 101, 47 >>
\* 0xC3: the lead byte of a two-byte UTF-8 sequence, not valid UTF-8 alone
LeadByte == << 195 >>
\* 0xA9: a UTF-8 continuation byte, not valid UTF-8 alone; 0xC3 0xA9 is valid
ContByte == << 169 >>

\* payloads of the non-empty pushes of the enumerated scripts
Payloads == { TextPlain, ImagePrefix, LeadByte, ContByte }

\* the three zero forms of the protocol; OP_0 and OP_FALSE are one opcode
ZeroForms == { Op(OP_0), Op(OP_FALSE), PushBytes(<< >>) }

\* items a stream can yield with Ok
OkItems ==
    ZeroForms \cup { Op(OP_IF), Op(OP_ENDIF) } \cup { PushBytes(p) : p \in Payloads }

Items == OkItems \cup { Err }

(***************************************************************************)
(* String::from_utf8: whether a byte sequence is well-formed UTF-8.        *)
(***************************************************************************)
IsCont(bytes, i) == i <= Len(bytes) /\ bytes[i] >= 128 /\ bytes[i] <= 191

InRange(bytes, i, lo, hi) == i <= Len(bytes) /\ bytes[i] >= lo /\ bytes[i] <= hi

\* length of the well-formed UTF-8 sequence starting at index i, 0 when none does
Utf8SeqLen(bytes, i) ==
    LET b == bytes[i] IN
    IF b <= 127 THEN 1
    ELSE IF b >= 194 /\ b <= 223
        THEN IF IsCont(bytes, i + 1) THEN 2 ELSE 0
    ELSE IF b = 224
        THEN IF InRange(bytes, i + 1, 160, 191) /\ IsCont(bytes, i + 2) THEN 3 ELSE 0
    ELSE IF b = 237
        THEN IF InRange(bytes, i + 1, 128, 159) /\ IsCont(bytes, i + 2) THEN 3 ELSE 0
    ELSE IF b >= 225 /\ b <= 239
        THEN IF IsCont(bytes, i + 1) /\ IsCont(bytes, i + 2) THEN 3 ELSE 0
    ELSE IF b = 240
        THEN IF InRange(bytes, i + 1, 144, 191) /\ IsCont(bytes, i + 2)
                /\ IsCont(bytes, i + 3) THEN 4 ELSE 0
    ELSE IF b >= 241 /\ b <= 243
        THEN IF IsCont(bytes, i + 1) /\ IsCont(bytes, i + 2)
                /\ IsCont(bytes, i + 3) THEN 4 ELSE 0
    ELSE IF b = 244
        THEN IF InRange(bytes, i + 1, 128, 143) /\ IsCont(bytes, i + 2)
                /\ IsCont(bytes, i + 3) THEN 4 ELSE 0
    ELSE 0

RECURSIVE Utf8From(_, _)
Utf8From(bytes, i) ==
    IF i > Len(bytes) THEN TRUE
    ELSE LET n == Utf8SeqLen(bytes, i) IN
         IF n = 0 THEN FALSE ELSE Utf8From(bytes, i + n)

\* String::from_utf8(bytes): Ok(String) is Some(bytes), Err(_) is None
FromUtf8(bytes) == IF Utf8From(bytes, 1) THEN Some(bytes) ELSE None

\* str::starts_with
StartsWith(s, prefix) ==
    Len(s) >= Len(prefix) /\ SubSeq(s, 1, Len(prefix)) = prefix

(***************************************************************************)
(* InscriptionType.                                                        *)
(***************************************************************************)
Text(s) == [variant |-> "Text", text |-> s]
Image(m, d) == [variant |-> "Image", mime_type |-> m, data |-> d]
Unknown(d) == [variant |-> "Unknown", data |-> d]

(***************************************************************************)
(* InscriptionParser::classify_inscription.                                *)
(***************************************************************************)
\* mutant: a MIME type that is neither text/plain nor image/ is rejected
classify_inscription_knownOnly(content_type, content) ==
    LET ct == FromUtf8(content_type) IN
    IF ct = None THEN None
    ELSE IF ct.value = TextPlain
        THEN LET c == FromUtf8(content) IN
             IF c = None THEN None ELSE Some(Text(c.value))
    ELSE IF StartsWith(ct.value, ImagePrefix)
        THEN Some(Image(ct.value, content))
    ELSE None

classify_inscription(content_type, content) ==
    LET ct == FromUtf8(content_type) IN
    IF ct = None THEN None
    ELSE IF ct.value = TextPlain
        THEN LET c == FromUtf8(content) IN
             IF c = None THEN None ELSE Some(Text(c.value))
    ELSE IF StartsWith(ct.value, ImagePrefix)
        THEN Some(Image(ct.value, content))
    ELSE Some(Unknown(content))

(***************************************************************************)
(* The zero test of parse_script (is_false) and of                         *)
(* parse_inscription_content (is_zero) on an Ok instruction.               *)
(***************************************************************************)
\* mutant: every push counts as the zero lead-in
is_false_anyPush(first) ==
    IF first.kind = "Op" THEN first.op = OP_FALSE \/ first.op = OP_0
    ELSE TRUE

is_false(first) ==
    IF first.kind = "Op" THEN first.op = OP_FALSE \/ first.op = OP_0
    ELSE first.data = << >>

\* mutant: only the opcode form is taken as separator, not the empty push
is_zero_opOnly(instruction) ==
    instruction.kind = "Op" /\ (instruction.op = OP_0 \/ instruction.op = OP_FALSE)

is_zero(instruction) ==
    IF instruction.kind = "Op" THEN instruction.op = OP_0 \/ instruction.op = OP_FALSE
    ELSE instruction.data = << >>

(***************************************************************************)
(* parse_script and parse_inscription_content as a step machine over the   *)
(* record st:                                                              *)
(*   pc      "start" (parse_script entered), "loop" (the while-let loop of *)
(*           parse_inscription_content), "end" (the loop was left),        *)
(*           "done" (returned)                                             *)
(*   rest    the items the peekable iterator has not yet yielded           *)
(*   content_type, content, reading_content_type: the locals               *)
(*   result  the Option<InscriptionType> returned                          *)
(***************************************************************************)
ScriptStart(s) ==
    [ pc |-> "start", rest |-> s, content_type |-> << >>, content |-> << >>,
      reading_content_type |-> TRUE, result |-> None ]

ScriptReturn(st, r) == [st EXCEPT !.pc = "done", !.result = r]

\* parse_script up to the call of parse_inscription_content
LeadIn(st) ==
    IF Len(st.rest) = 0 THEN ScriptReturn(st, None)
    ELSE IF Len(st.rest) = 1 THEN ScriptReturn([st EXCEPT !.rest = << >>], None)
    ELSE LET first == st.rest[1]
             second == st.rest[2]
             after == [st EXCEPT !.rest = Tail(Tail(st.rest))]
         IN  IF first.kind # "Err" /\ second.kind = "Op"
             THEN IF is_false(first) /\ second.op = OP_IF
                  THEN [after EXCEPT !.pc = "loop"]
                  ELSE ScriptReturn(after, None)
             ELSE ScriptReturn(after, None)

\* the one-token lookahead after a content-type push
Lookahead(st) ==
    IF Len(st.rest) > 0 /\ st.rest[1].kind # "Err" /\ is_zero(st.rest[1])
    THEN [st EXCEPT !.reading_content_type = FALSE, !.rest = Tail(st.rest)]
    ELSE st

\* mutant: a push replaces the buffer instead of extending it
OnPush_overwrite(st, data) ==
    IF st.reading_content_type
    THEN Lookahead([st EXCEPT !.content_type = data])
    ELSE [st EXCEPT !.content = data]

\* the PushBytes arm of the loop body
OnPush(st, data) ==
    IF st.reading_content_type
    THEN Lookahead([st EXCEPT !.content_type = st.content_type \o data])
    ELSE [st EXCEPT !.content = st.content \o data]

\* mutant: a decode error is skipped and the loop goes on
OnErr_skip(st) == st

\* the while-let pattern Some(Ok(_)) fails on Some(Err(_)): the loop is left
OnErr(st) == [st EXCEPT !.pc = "end"]

\* mutant: an envelope without OP_ENDIF is rejected
OnEndOfStream_reject(st) == ScriptReturn(st, None)

\* the while-let pattern fails on None (end of stream): the loop is left
OnEndOfStream(st) == [st EXCEPT !.pc = "end"]

\* mutant: an unknown opcode ends the envelope
OnOtherOp_abort(st) == [st EXCEPT !.pc = "end"]

\* mutant: an opcode after the content type is taken for the separator
OnOtherOp_switch(st) == [st EXCEPT !.reading_content_type = FALSE]

\* the arm for every opcode other than OP_ENDIF
OnOtherOp(st) == st

\* one evaluation of the while-let condition and, when it matches, of the body
LoopStep(st) ==
    IF Len(st.rest) = 0 THEN OnEndOfStream(st)
    ELSE LET instruction == st.rest[1]
             next == [st EXCEPT !.rest = Tail(st.rest)]
         IN  IF instruction.kind = "Err" THEN OnErr(next)
             ELSE IF instruction.kind = "Op" /\ instruction.op = OP_ENDIF
                 THEN [next EXCEPT !.pc = "end"]
             ELSE IF instruction.kind = "PushBytes"
                 THEN OnPush(next, instruction.data)
             ELSE OnOtherOp(next)

\* mutant: an envelope without a content type is rejected
Finish_rejectEmpty(st) ==
    IF st.content_type = << >> THEN ScriptReturn(st, None)
    ELSE ScriptReturn(st, classify_inscription(st.content_type, st.content))

\* after the loop: classify the two buffers and return
Finish(st) == ScriptReturn(st, classify_inscription(st.content_type, st.content))

ScriptStep(st) ==
    IF st.pc = "start" THEN LeadIn(st)
    ELSE IF st.pc = "loop" THEN LoopStep(st)
    ELSE Finish(st)

RECURSIVE RunScript(_)
RunScript(st) == IF st.pc = "done" THEN st ELSE RunScript(ScriptStep(st))

\* InscriptionParser::parse_script as a function of the instruction stream
parse_script(s) == RunScript(ScriptStart(s)).result

(***************************************************************************)
(* The enumerated instruction streams.                                     *)
(***************************************************************************)
OkSeqs(n) == UNION { [1..k -> OkItems] : k \in 0..n }

\* streams of at most n items: Ok items, with at most one Err, which is last
Streams(n) ==
    OkSeqs(n) \cup (IF n = 0 THEN {} ELSE { Append(s, Err) : s \in OkSeqs(n - 1) })

EnvelopeLeads == { << z, Op(OP_IF) >> : z \in ZeroForms }

Scripts ==
    Streams(2)
    \cup { l \o b : l \in EnvelopeLeads, b \in Streams(MaxEnvelopeLen) }
    \cup { l \o b : l \in [1..2 -> OkItems], b \in Streams(MaxRestLen) }

(***************************************************************************)
(* Idle values of the variables a specification does not use.              *)
(***************************************************************************)
IdleScript == << >>
IdlePs == [ScriptStart(<< >>) EXCEPT !.pc = "idle"]
IdleTx == [input |-> << >>, output |-> << >>]
IdlePt == [pc |-> "idle", i |-> 0, result |-> None]

IdleEx == [ pc |-> "idle", rest |-> << >>, push_count |-> 0, found_text |-> None ]

ExtractIdle == script_sig = << >> /\ ex = IdleEx

IdleScan == [ pc |-> "idle" ]
IdleSer == [ pc |-> "idle" ]
IdleImg == [ pc |-> "idle" ]
IdleTxt == [ pc |-> "idle" ]
IdleNode == [ pc |-> "idle" ]

ScanIdle == scan = IdleScan
NodeIdle == node = IdleNode
StorageIdle == ser = IdleSer /\ img = IdleImg /\ txt = IdleTxt
ScriptIdle == script = IdleScript /\ ps = IdlePs
TxIdle == tx = IdleTx /\ pt = IdlePt
DriverIdle ==
    /\ blocks = << >>
    /\ batch_size = 0
    /\ dpc = "idle"
    /\ slots = << >>
    /\ returned = << >>

(***************************************************************************)
(* SpecScript: parse_script on one output script, step by step.            *)
(***************************************************************************)
InitScript ==
    /\ script \in Scripts
    /\ ps = ScriptStart(script)
    /\ ExtractIdle
    /\ ScanIdle
    /\ NodeIdle
    /\ StorageIdle
    /\ TxIdle
    /\ DriverIdle

ParseScriptLeadIn ==
    /\ ps.pc = "start"
    /\ ps' = LeadIn(ps)
    /\ UNCHANGED <<node, scan, ser, img, txt, script_sig, ex, script, tx, pt, blocks, batch_size, dpc, slots, returned>>

ParseContentStep ==
    /\ ps.pc = "loop"
    /\ ps' = LoopStep(ps)
    /\ UNCHANGED <<node, scan, ser, img, txt, script_sig, ex, script, tx, pt, blocks, batch_size, dpc, slots, returned>>

ParseContentFinish ==
    /\ ps.pc = "end"
    /\ ps' = Finish(ps)
    /\ UNCHANGED <<node, scan, ser, img, txt, script_sig, ex, script, tx, pt, blocks, batch_size, dpc, slots, returned>>

NextScript == ParseScriptLeadIn \/ ParseContentStep \/ ParseContentFinish

SpecScript == InitScript /\ [][NextScript]_vars

(***************************************************************************)
(* hex::encode and hex::decode, used by extract_text_from_script.          *)
(***************************************************************************)
HexChars ==
    << "0", "1", "2", "3", "4", "5", "6", "7", "8", "9", "a", "b", "c", "d", "e", "f" >>

HexVal(c) == CHOOSE v \in 0..15 : HexChars[v + 1] = c

RECURSIVE hex_encode(_)
hex_encode(bytes) ==
    IF bytes = << >> THEN << >>
    ELSE << HexChars[(Head(bytes) \div 16) + 1], HexChars[(Head(bytes) % 16) + 1] >>
         \o hex_encode(Tail(bytes))

\* mutant: the high digit of a pair is not scaled by 16
RECURSIVE HexPairs_noShift(_)
HexPairs_noShift(chars) ==
    IF chars = << >> THEN << >>
    ELSE << HexVal(chars[1]) + HexVal(chars[2]) >> \o HexPairs_noShift(Tail(Tail(chars)))

RECURSIVE HexPairs(_)
HexPairs(chars) ==
    IF chars = << >> THEN << >>
    ELSE << 16 * HexVal(chars[1]) + HexVal(chars[2]) >> \o HexPairs(Tail(Tail(chars)))

\* Ok(bytes) is Some(bytes); odd length or a non-hex character is None
hex_decode(chars) ==
    IF Len(chars) % 2 = 1 THEN None
    ELSE IF \E k \in DOMAIN chars : \A v \in 0..15 : HexChars[v + 1] # chars[k] THEN None
    ELSE Some(HexPairs(chars))

(***************************************************************************)
(* InscriptionParser::extract_text_from_script.                            *)
(***************************************************************************)
\* mutant: the decoded bytes are taken as text without validation
ThirdPush_unchecked(data, found_text) ==
    LET decoded == hex_decode(hex_encode(data)) IN
    IF decoded = None THEN found_text ELSE Some(decoded.value)

\* the body of "if push_count == 3": the new value of found_text
ThirdPush(data, found_text) ==
    LET decoded == hex_decode(hex_encode(data)) IN
    IF decoded = None THEN found_text
    ELSE LET text == FromUtf8(decoded.value) IN
         IF text = None THEN found_text ELSE text

(***************************************************************************)
(* extract_text_from_script as a step machine over the record st:          *)
(*   pc      "loop" (the for loop over script.instructions()), "done"      *)
(*   rest    the items the iterator has not yet yielded                    *)
(*   push_count, found_text: the locals                                    *)
(***************************************************************************)
ExtractStart(s) ==
    [ pc |-> "loop", rest |-> s, push_count |-> 0, found_text |-> None ]

\* mutant: every decoded instruction is counted, not only the pushes
OnInstruction_countAll(st, instruction) ==
    IF instruction.kind # "Err"
    THEN LET n == st.push_count + 1 IN
         [st EXCEPT !.push_count = n,
                    !.found_text = IF n = 3 /\ instruction.kind = "PushBytes"
                                   THEN ThirdPush(instruction.data, @) ELSE @]
    ELSE st

\* mutant: every push from the third on is taken (push_count >= 3)
OnInstruction_fromThird(st, instruction) ==
    IF instruction.kind = "PushBytes"
    THEN LET n == st.push_count + 1 IN
         [st EXCEPT !.push_count = n,
                    !.found_text = IF n >= 3 THEN ThirdPush(instruction.data, @) ELSE @]
    ELSE st

\* the body of the for loop on one item of the stream
OnInstruction(st, instruction) ==
    IF instruction.kind = "PushBytes"
    THEN LET n == st.push_count + 1 IN
         [st EXCEPT !.push_count = n,
                    !.found_text = IF n = 3 THEN ThirdPush(instruction.data, @) ELSE @]
    ELSE st

\* one iteration of the for loop, or its end
ExtractStep(st) ==
    IF st.rest = << >> THEN [st EXCEPT !.pc = "done"]
    ELSE OnInstruction([st EXCEPT !.rest = Tail(st.rest)], Head(st.rest))

RECURSIVE ExtractLoop(_)
ExtractLoop(st) == IF st.pc = "done" THEN st ELSE ExtractLoop(ExtractStep(st))

extract_text_from_script(s) == ExtractLoop(ExtractStart(s)).found_text

(***************************************************************************)
(* Transactions.  An input carries previous_output ("null" for the         *)
(* coinbase sentinel) and script_sig; an output carries script_pubkey.     *)
(* Transaction::txid is a hash of the transaction, modelled as an          *)
(* injective tag of it.                                                    *)
(***************************************************************************)
TxIn(prev, sig) == [previous_output |-> prev, script_sig |-> sig]
TxOut(pk) == [script_pubkey |-> pk]
Transaction(ins, outs) == [input |-> ins, output |-> outs]

Txid(t) == [hash_of |-> t]

\* mutant: every input is taken for a coinbase input
is_null_always(previous_output) == TRUE

is_null(previous_output) == previous_output = "null"

\* mutant: the inscription carries the all-zero txid
NewInscription_zeroTxid(t, content) ==
    [txid |-> Txid(Transaction(<< >>, << >>)), content |-> content]

\* Inscription { txid: tx.txid(), content }
NewInscription(t, content) == [txid |-> Txid(t), content |-> content]

(***************************************************************************)
(* parse_transaction as a step machine over the record st:                 *)
(*   pc      "inputs" (the first for loop), "outputs" (the second),        *)
(*           "done" (returned)                                             *)
(*   i       index of the next input or output to examine                  *)
(*   result  the Option<Inscription> returned                              *)
(***************************************************************************)
TxStart == [pc |-> "inputs", i |-> 1, result |-> None]

TxReturn(st, r) == [st EXCEPT !.pc = "done", !.result = r]

\* mutant: a coinbase input without text ends the search
InputStep_stopOnMiss(t, st) ==
    LET input == t.input[st.i] IN
    IF is_null(input.previous_output)
    THEN LET text == extract_text_from_script(input.script_sig) IN
         IF text # None
         THEN TxReturn(st, Some(NewInscription(t, Text(text.value))))
         ELSE TxReturn(st, None)
    ELSE [st EXCEPT !.i = st.i + 1]

\* one iteration of the loop over tx.input
InputStep(t, st) ==
    LET input == t.input[st.i] IN
    IF is_null(input.previous_output)
    THEN LET text == extract_text_from_script(input.script_sig) IN
         IF text # None
         THEN TxReturn(st, Some(NewInscription(t, Text(text.value))))
         ELSE [st EXCEPT !.i = st.i + 1]
    ELSE [st EXCEPT !.i = st.i + 1]

\* the loop over tx.input ends, the loop over tx.output starts
InputsEnd(st) == [st EXCEPT !.pc = "outputs", !.i = 1]

\* one iteration of the loop over tx.output
OutputStep(t, st) ==
    LET content == parse_script(t.output[st.i].script_pubkey) IN
    IF content # None
    THEN TxReturn(st, Some(NewInscription(t, content.value)))
    ELSE [st EXCEPT !.i = st.i + 1]

\* the loop over tx.output ends: None
OutputsEnd(st) == TxReturn(st, None)

TxStep(t, st) ==
    IF st.pc = "inputs"
    THEN IF st.i <= Len(t.input) THEN InputStep(t, st) ELSE InputsEnd(st)
    ELSE IF st.i <= Len(t.output) THEN OutputStep(t, st) ELSE OutputsEnd(st)

RECURSIVE RunTx(_, _)
RunTx(t, st) == IF st.pc = "done" THEN st ELSE RunTx(t, TxStep(t, st))

\* InscriptionParser::parse_transaction as a function of the transaction
parse_transaction(t) == RunTx(t, TxStart).result

(***************************************************************************)
(* The enumerated transactions.                                            *)
(***************************************************************************)
\* third push "text/plain;charset=utf-8": text is extracted
SigText == << PushBytes(LeadByte), PushBytes(ContByte), PushBytes(TextPlain) >>
\* third push "image/"
SigImageText == << PushBytes(TextPlain), PushBytes(TextPlain), PushBytes(ImagePrefix) >>
\* two pushes only: no text
SigTwoPushes == << PushBytes(TextPlain), PushBytes(ImagePrefix) >>
\* third push 0xC3 is not UTF-8: no text
SigBadUtf8 == << PushBytes(TextPlain), PushBytes(TextPlain), PushBytes(LeadByte) >>

SigScripts == { SigText, SigImageText, SigTwoPushes, SigBadUtf8 }

\* OP_0 OP_IF "text/plain;charset=utf-8" OP_0 "image/" OP_ENDIF
PkText ==
    << Op(OP_0), Op(OP_IF), PushBytes(TextPlain), Op(OP_0), PushBytes(ImagePrefix),
       Op(OP_ENDIF) >>
\* <empty push> OP_IF "image/" OP_0 0xC3 (no OP_ENDIF)
PkImage ==
    << PushBytes(<< >>), Op(OP_IF), PushBytes(ImagePrefix), Op(OP_0), PushBytes(LeadByte) >>
\* OP_0 OP_IF OP_ENDIF
PkEmptyEnvelope == << Op(OP_0), Op(OP_IF), Op(OP_ENDIF) >>
\* "text/plain;charset=utf-8" OP_IF "image/": no start sequence
PkNoEnvelope == << PushBytes(TextPlain), Op(OP_IF), PushBytes(ImagePrefix) >>
\* OP_0 OP_IF 0xC3 OP_ENDIF: the content type is not UTF-8
PkBadType == << Op(OP_0), Op(OP_IF), PushBytes(LeadByte), Op(OP_ENDIF) >>

PkScripts == { PkText, PkImage, PkEmptyEnvelope, PkNoEnvelope, PkBadType }

TxIns == { TxIn(prev, sig) : prev \in {"null", "outpoint"}, sig \in SigScripts }
TxOuts == { TxOut(pk) : pk \in PkScripts }

SeqsUpTo(S, n) == UNION { [1..k -> S] : k \in 0..n }

Transactions ==
    { Transaction(ins, outs) :
        ins \in SeqsUpTo(TxIns, MaxInputs), outs \in SeqsUpTo(TxOuts, MaxOutputs) }

(***************************************************************************)
(* Spec: parse_transaction on one transaction, one loop iteration a step.  *)
(***************************************************************************)
Init ==
    /\ tx \in Transactions
    /\ pt = TxStart
    /\ ExtractIdle
    /\ ScanIdle
    /\ NodeIdle
    /\ StorageIdle
    /\ ScriptIdle
    /\ DriverIdle

ExamineInput ==
    /\ pt.pc = "inputs"
    /\ pt.i <= Len(tx.input)
    /\ pt' = InputStep(tx, pt)
    /\ UNCHANGED <<node, scan, ser, img, txt, script_sig, ex, script, ps, tx, blocks, batch_size, dpc, slots, returned>>

InputsExhausted ==
    /\ pt.pc = "inputs"
    /\ pt.i > Len(tx.input)
    /\ pt' = InputsEnd(pt)
    /\ UNCHANGED <<node, scan, ser, img, txt, script_sig, ex, script, ps, tx, blocks, batch_size, dpc, slots, returned>>

ExamineOutput ==
    /\ pt.pc = "outputs"
    /\ pt.i <= Len(tx.output)
    /\ pt' = OutputStep(tx, pt)
    /\ UNCHANGED <<node, scan, ser, img, txt, script_sig, ex, script, ps, tx, blocks, batch_size, dpc, slots, returned>>

OutputsExhausted ==
    /\ pt.pc = "outputs"
    /\ pt.i > Len(tx.output)
    /\ pt' = OutputsEnd(pt)
    /\ UNCHANGED <<node, scan, ser, img, txt, script_sig, ex, script, ps, tx, blocks, batch_size, dpc, slots, returned>>

Next == ExamineInput \/ InputsExhausted \/ ExamineOutput \/ OutputsExhausted

Spec == Init /\ [][Next]_vars

(***************************************************************************)
(* SpecCoinbase: parse_transaction on a transaction whose first input is a *)
(* coinbase input, with the call of extract_text_from_script on it         *)
(* unfolded, one item of the stream a step.                                *)
(***************************************************************************)
\* the signature scripts of the first input: every stream of at most MaxSigLen items
SigStreams == Streams(MaxSigLen)

\* what follows the first input: nothing or a coinbase input with text
LaterInputs == { << >>, << TxIn("null", SigText) >> }

\* the outputs: none or one with a Text envelope
LaterOutputs == { << >>, << TxOut(PkText) >> }

CoinbaseFirst(sig, more, outs) == Transaction(<< TxIn("null", sig) >> \o more, outs)

InitCoinbase ==
    /\ script_sig \in SigStreams
    /\ ex = ExtractStart(script_sig)
    /\ tx \in { CoinbaseFirst(script_sig, more, outs) :
                  more \in LaterInputs, outs \in LaterOutputs }
    /\ pt = TxStart
    /\ ScriptIdle
    /\ DriverIdle
    /\ ScanIdle
    /\ NodeIdle
    /\ StorageIdle

\* the for loop takes the next item of the stream
ExtractIterate ==
    /\ ex.pc = "loop"
    /\ ex.rest # << >>
    /\ ex' = ExtractStep(ex)
    /\ UNCHANGED <<node, scan, ser, img, txt, script_sig, script, ps, tx, pt, blocks, batch_size, dpc, slots, returned>>

\* the stream is exhausted: found_text is returned
ExtractReturn ==
    /\ ex.pc = "loop"
    /\ ex.rest = << >>
    /\ ex' = ExtractStep(ex)
    /\ UNCHANGED <<node, scan, ser, img, txt, script_sig, script, ps, tx, pt, blocks, batch_size, dpc, slots, returned>>

\* parse_transaction goes on with the value extract_text_from_script returned
CoinbaseExamined ==
    /\ ex.pc = "done"
    /\ ExamineInput

NextCoinbase ==
    ExtractIterate \/ ExtractReturn \/ CoinbaseExamined \/ InputsExhausted
        \/ ExamineOutput \/ OutputsExhausted

SpecCoinbase == InitCoinbase /\ [][NextCoinbase]_vars

(***************************************************************************)
(* ParallelParser::process_block: the filter_map closure applied to one    *)
(* transaction.                                                            *)
(***************************************************************************)
\* b"Chancellor", b"bank", b"Times", b"bailout"
Chancellor == << 67, 104, 97, 110, 99, 101, 108, 108, 111, 114 >>
Bank == << 98, 97, 110, 107 >>
Times == << 84, 105, 109, 101, 115 >>
Bailout == << 98, 97, 105, 108, 111, 117, 116 >>

\* str::contains
Contains(s, needle) ==
    \E k \in 0..(Len(s) - Len(needle)) : SubSeq(s, k + 1, k + Len(needle)) = needle

\* the closure of filter_map: Some(text) or None
FilterMap(t) ==
    LET inscription == parse_transaction(t) IN
    IF inscription # None /\ inscription.value.content.variant = "Text"
    THEN LET text == inscription.value.content.text IN
         IF Contains(text, Chancellor) \/ Contains(text, Bank)
               \/ Contains(text, Times) \/ Contains(text, Bailout)
         THEN Some(text)
         ELSE None
    ELSE None

(***************************************************************************)
(* ParallelParser::process_blocks.  The transactions of all blocks are     *)
(* parsed by the pool's workers in any order; slots holds the finished     *)
(* ones in completion order, each with the block and transaction index it  *)
(* came from.  The nested flat_map/collect gathers them by chunk, by block *)
(* within the chunk and by transaction within the block.                   *)
(***************************************************************************)
Block(txs) == [txdata |-> txs]

\* every (block index, transaction index) of the batch
Tasks(bl) == UNION { { << b, t >> : t \in DOMAIN bl[b].txdata } : b \in DOMAIN bl }

Finished(sl) == { sl[k].origin : k \in DOMAIN sl }

SlotOf(sl, o) == sl[CHOOSE k \in DOMAIN sl : sl[k].origin = o]

\* the entry a finished transaction contributes: none for None
EntryOf(slot) ==
    IF slot.value = None THEN << >>
    ELSE << [origin |-> slot.origin, text |-> slot.value.value] >>

\* process_block: the collected filter_map over block.txdata, from index t on
RECURSIVE process_block(_, _, _, _)
process_block(bl, sl, b, t) ==
    IF t > Len(bl[b].txdata) THEN << >>
    ELSE EntryOf(SlotOf(sl, << b, t >>)) \o process_block(bl, sl, b, t + 1)

\* the inner flat_map over the blocks lo..hi of one chunk
RECURSIVE ChunkResults(_, _, _, _)
ChunkResults(bl, sl, lo, hi) ==
    IF lo > hi THEN << >>
    ELSE process_block(bl, sl, lo, 1) \o ChunkResults(bl, sl, lo + 1, hi)

LesserOf(a, b) == IF a < b THEN a ELSE b

\* mutant: a last chunk shorter than batch_size is dropped
RECURSIVE CollectFrom_exactChunks(_, _, _, _)
CollectFrom_exactChunks(bl, bs, sl, lo) ==
    IF lo + bs - 1 > Len(bl) THEN << >>
    ELSE ChunkResults(bl, sl, lo, lo + bs - 1)
         \o CollectFrom_exactChunks(bl, bs, sl, lo + bs)

\* the outer flat_map over par_chunks(batch_size), from block index lo on
RECURSIVE CollectFrom(_, _, _, _)
CollectFrom(bl, bs, sl, lo) ==
    IF lo > Len(bl) THEN << >>
    ELSE ChunkResults(bl, sl, lo, LesserOf(lo + bs - 1, Len(bl)))
         \o CollectFrom(bl, bs, sl, lo + bs)

\* mutant: the workers append to one shared vector as they finish
RECURSIVE Collect_completionOrder(_, _, _)
Collect_completionOrder(bl, bs, sl) ==
    IF sl = << >> THEN << >>
    ELSE EntryOf(Head(sl)) \o Collect_completionOrder(bl, bs, Tail(sl))

\* the value of pool.install(..): the collected Vec
Collect(bl, bs, sl) == CollectFrom(bl, bs, sl, 1)

(***************************************************************************)
(* The enumerated block batches.                                           *)
(***************************************************************************)
\* b"The Times"
TheTimes == << 84, 104, 101, 32 >> \o Times

\* coinbase text "The Times": kept by the filter
TxTimes ==
    Transaction(
        << TxIn("null", << PushBytes(LeadByte), PushBytes(ContByte), PushBytes(TheTimes) >>) >>,
        << >>)
\* coinbase text "image/": a Text without any of the four words
TxOtherText ==
    Transaction(
        << TxIn("null", << PushBytes(LeadByte), PushBytes(ContByte), PushBytes(ImagePrefix) >>) >>,
        << >>)
\* no inputs, no outputs: no inscription
TxEmpty == Transaction(<< >>, << >>)

DriverTxs == { TxTimes, TxOtherText, TxEmpty }

\* every ascending choice of at most MaxBlocks - 1 cut points in 0..n
Cuts(n) ==
    { c \in SeqsUpTo(0..n, MaxBlocks - 1) :
        \A k \in 1..(Len(c) - 1) : c[k] <= c[k + 1] }

\* the blocks that the cut points c make of the transaction sequence f
Split(f, c) ==
    [ k \in 1..(Len(c) + 1) |->
        Block(SubSeq(f, (IF k = 1 THEN 0 ELSE c[k - 1]) + 1,
                        IF k = Len(c) + 1 THEN Len(f) ELSE c[k])) ]

\* vectors of at most MaxBlocks blocks with at most MaxBatchTxs transactions in all
Batches ==
    { << >> } \cup
    UNION { { Split(f, c) : c \in Cuts(Len(f)) } : f \in SeqsUpTo(DriverTxs, MaxBatchTxs) }

(***************************************************************************)
(* SpecDriver: one call of process_blocks.                                 *)
(***************************************************************************)
InitDriver ==
    /\ blocks \in Batches
    /\ batch_size \in 0..MaxBatchSize
    /\ dpc = "called"
    /\ slots = << >>
    /\ returned = << >>
    /\ ExtractIdle
    /\ ScanIdle
    /\ NodeIdle
    /\ StorageIdle
    /\ ScriptIdle
    /\ TxIdle

\* the pool is built and par_chunks(batch_size) is called: it panics on 0
ProcessBlocksStart ==
    /\ dpc = "called"
    /\ dpc' = IF batch_size = 0 THEN "panicked" ELSE "running"
    /\ UNCHANGED <<node, scan, ser, img, txt, script_sig, ex, script, ps, tx, pt, blocks, batch_size, slots, returned>>

\* a worker runs the filter_map closure on one transaction not yet done
WorkerParse ==
    /\ dpc = "running"
    /\ \E o \in Tasks(blocks) \ Finished(slots) :
          slots' = Append(slots,
                          [origin |-> o, value |-> FilterMap(blocks[o[1]].txdata[o[2]])])
    /\ UNCHANGED <<node, scan, ser, img, txt, script_sig, ex, script, ps, tx, pt, blocks, batch_size, dpc, returned>>

\* every transaction is done: collect and return
ProcessBlocksReturn ==
    /\ dpc = "running"
    /\ Tasks(blocks) = Finished(slots)
    /\ returned' = Collect(blocks, batch_size, slots)
    /\ dpc' = "returned"
    /\ UNCHANGED <<node, scan, ser, img, txt, script_sig, ex, script, ps, tx, pt, blocks, batch_size, slots>>

NextDriver == ProcessBlocksStart \/ WorkerParse \/ ProcessBlocksReturn

SpecDriver == InitDriver /\ [][NextDriver]_vars

(***************************************************************************)
(* main: the scan loop (src/src/main.rs).  The record st holds             *)
(*   pc       "count" (before latest_block is set), "loop" (the while      *)
(*            test), "fetch" (the for loop over the heights of a batch),   *)
(*            "process" (the call of process_blocks), "store" (the for     *)
(*            loop over the results), "done" (Ok(()) returned), "failed"   *)
(*            (Err returned), "panicked"                                   *)
(*   mock     args.mock                                                    *)
(*   overflow_checks   whether the build panics on integer overflow (a     *)
(*            debug build) or wraps (a release build)                      *)
(*   tip      the height of the node's chain tip                           *)
(*   start_block, latest_block, current_block, end_block, height, blocks,  *)
(*   inscriptions: the locals                                              *)
(*   failed   the heights of the current batch whose fetch failed          *)
(*   times    per height, how often it was requested, counted up to 2      *)
(*   pools    thread pools built so far, counted up to 2                   *)
(*   attempts the store_inscription calls of the current batch             *)
(***************************************************************************)
\* the number of mock blocks: "start_block + 10"
MockBlocks == 10

Heights == 0..U64Max

\* u64 addition: whether it overflows, and the wrapped sum
Overflows(a, b) == a + b > U64Max
WrapAdd(a, b) == (a + b) % (U64Max + 1)

\* a counter that stops at 2
UpTo2(n) == IF n >= 2 THEN 2 ELSE n + 1

\* the block the node serves at a height: every height that is no multiple of 3
\* carries one text that process_block keeps
NodeBlock(h) == [ height |-> h, texts |-> IF h % 3 = 0 THEN 0 ELSE 1 ]

\* create_mock_inscription_block: its text "Hello from block <height>!" has none
\* of the words process_block keeps
MockBlock(h) == [ height |-> h, texts |-> 0 ]

ScanStart(mock, checks, tip, start, bs) ==
    [ pc |-> "count", mock |-> mock, overflow_checks |-> checks, tip |-> tip,
      start_block |-> start, latest_block |-> 0, current_block |-> start,
      end_block |-> 0, height |-> 0, blocks |-> << >>, inscriptions |-> << >>,
      failed |-> {}, times |-> [ h \in Heights |-> 0 ], pools |-> 0,
      attempts |-> << >> ]

\* "let latest_block = ..." in mock mode: start_block + 10
MockLatest(st) ==
    IF Overflows(st.start_block, MockBlocks)
    THEN IF st.overflow_checks THEN [st EXCEPT !.pc = "panicked"]
         ELSE [st EXCEPT !.pc = "loop",
                         !.latest_block = WrapAdd(st.start_block, MockBlocks)]
    ELSE [st EXCEPT !.pc = "loop", !.latest_block = st.start_block + MockBlocks]

\* "let latest_block = ..." in live mode: Ok(count) of get_block_count
LiveLatest(st) == [st EXCEPT !.pc = "loop", !.latest_block = st.tip]

\* mutant: the batch is not clamped to latest_block
EndBlock_noClamp(st, bs) == st.current_block + bs

\* mutant: a batch holds at least one height
EndBlock_atLeastOne(st, bs) ==
    LET n == IF bs = 0 THEN 1 ELSE bs IN
    IF st.current_block + n < st.latest_block
    THEN st.current_block + n ELSE st.latest_block

\* min(current_block + batch_size as u64, latest_block), the sum not overflowing
EndBlock(st, bs) ==
    IF st.current_block + bs < st.latest_block
    THEN st.current_block + bs ELSE st.latest_block

\* the while test holds: end_block is computed and the fetch loop starts
BatchBegin(st, bs) ==
    IF Overflows(st.current_block, bs)
    THEN IF st.overflow_checks THEN [st EXCEPT !.pc = "panicked"]
         ELSE LET wrapped == WrapAdd(st.current_block, bs) IN
              [st EXCEPT !.pc = "fetch",
                         !.end_block = IF wrapped < st.latest_block
                                       THEN wrapped ELSE st.latest_block,
                         !.height = st.current_block, !.blocks = << >>,
                         !.failed = {}, !.attempts = << >>]
    ELSE [st EXCEPT !.pc = "fetch", !.end_block = EndBlock(st, bs),
                    !.height = st.current_block, !.blocks = << >>,
                    !.failed = {}, !.attempts = << >>]

\* mutant: a failed fetch ends the batch
OnFetchFailure_break(st) ==
    [st EXCEPT !.failed = @ \cup {st.height}, !.height = st.end_block]

\* "continue" after Err of get_block_hash or of get_block
OnFetchFailure(st) ==
    [st EXCEPT !.failed = @ \cup {st.height}, !.height = st.height + 1]

\* "blocks.push(block)"
OnFetched(st, block) ==
    [st EXCEPT !.blocks = Append(@, block), !.height = st.height + 1]

\* one iteration of "for height in current_block..end_block" in live mode;
\* outcome is "hash_err", "block_err" or "ok"
FetchHeight(st, outcome) ==
    LET asked == [st EXCEPT !.times[st.height] = UpTo2(@)] IN
    IF outcome = "ok" THEN OnFetched(asked, NodeBlock(st.height))
    ELSE OnFetchFailure(asked)

\* one element of (current_block..end_block).map(create_mock_inscription_block)
MockHeight(st) ==
    OnFetched([st EXCEPT !.times[st.height] = UpTo2(@)], MockBlock(st.height))

\* what process_blocks returns for the block vector: the kept texts in block order
RECURSIVE ProcessBlocksResult(_)
ProcessBlocksResult(blks) ==
    IF blks = << >> THEN << >>
    ELSE (IF Head(blks).texts > 0 THEN << [ height |-> Head(blks).height ] >> ELSE << >>)
         \o ProcessBlocksResult(Tail(blks))

\* "parser.process_blocks(blocks)": a pool is built, par_chunks(batch_size) panics
\* on 0, else the results come back
ProcessCall(st, bs) ==
    IF bs = 0 THEN [st EXCEPT !.pc = "panicked", !.pools = UpTo2(@)]
    ELSE [st EXCEPT !.pc = "store", !.pools = UpTo2(@),
                    !.inscriptions = ProcessBlocksResult(st.blocks)]

\* mutant: an Err of store_inscription is returned from main
StoreOne_propagate(st, ok) ==
    IF ok
    THEN [st EXCEPT !.attempts = Append(@, [ height |-> Head(st.inscriptions).height,
                                             ok |-> ok ]),
                    !.inscriptions = Tail(@)]
    ELSE [st EXCEPT !.pc = "failed"]

\* one iteration of "for inscription in inscriptions": an Err is logged only
StoreOne(st, ok) ==
    [st EXCEPT !.attempts = Append(@, [ height |-> Head(st.inscriptions).height,
                                        ok |-> ok ]),
               !.inscriptions = Tail(@)]

\* "current_block = end_block"
BatchEnd(st) == [st EXCEPT !.pc = "loop", !.current_block = st.end_block]

(***************************************************************************)
(* SpecScan: one run of main from the point where the configuration is     *)
(* loaded and the node client, the parser and the storage are built.       *)
(***************************************************************************)
InitScan ==
    /\ batch_size \in 0..MaxBatchSize
    /\ \E mock \in BOOLEAN, checks \in BOOLEAN, start \in Heights :
         \E tip \in (IF mock THEN {0} ELSE Heights) :
            scan = ScanStart(mock, checks, tip, start, batch_size)
    /\ blocks = << >>
    /\ dpc = "idle"
    /\ slots = << >>
    /\ returned = << >>
    /\ ExtractIdle
    /\ ScriptIdle
    /\ TxIdle
    /\ StorageIdle
    /\ NodeIdle

ScanUnchanged ==
    UNCHANGED <<node, script_sig, ex, script, ps, tx, pt, blocks, batch_size, dpc, slots,
                returned, ser, img, txt>>

\* the node's chain grows by a block
ChainGrows ==
    /\ ~scan.mock
    /\ scan.pc \in {"count", "loop", "fetch", "process", "store"}
    /\ scan.tip < U64Max
    /\ scan' = [scan EXCEPT !.tip = scan.tip + 1]
    /\ ScanUnchanged

\* get_block_count returns Ok(count)
GetBlockCount ==
    /\ scan.pc = "count"
    /\ ~scan.mock
    /\ scan' = LiveLatest(scan)
    /\ ScanUnchanged

\* get_block_count returns Err: main returns the error
GetBlockCountFails ==
    /\ scan.pc = "count"
    /\ ~scan.mock
    /\ scan' = [scan EXCEPT !.pc = "failed"]
    /\ ScanUnchanged

MockRange ==
    /\ scan.pc = "count"
    /\ scan.mock
    /\ scan' = MockLatest(scan)
    /\ ScanUnchanged

BatchStart ==
    /\ scan.pc = "loop"
    /\ scan.current_block < scan.latest_block
    /\ scan' = BatchBegin(scan, batch_size)
    /\ ScanUnchanged

\* the while test fails: "Scanning completed", Ok(())
ScanCompletes ==
    /\ scan.pc = "loop"
    /\ ~(scan.current_block < scan.latest_block)
    /\ scan' = [scan EXCEPT !.pc = "done"]
    /\ ScanUnchanged

FetchBlock ==
    /\ scan.pc = "fetch"
    /\ ~scan.mock
    /\ scan.height < scan.end_block
    /\ \E outcome \in {"hash_err", "block_err", "ok"} :
          scan' = FetchHeight(scan, outcome)
    /\ ScanUnchanged

MockBlockMade ==
    /\ scan.pc = "fetch"
    /\ scan.mock
    /\ scan.height < scan.end_block
    /\ scan' = MockHeight(scan)
    /\ ScanUnchanged

\* the range current_block..end_block is exhausted
FetchDone ==
    /\ scan.pc = "fetch"
    /\ ~(scan.height < scan.end_block)
    /\ scan' = [scan EXCEPT !.pc = "process"]
    /\ ScanUnchanged

ProcessBatch ==
    /\ scan.pc = "process"
    /\ scan' = ProcessCall(scan, batch_size)
    /\ ScanUnchanged

StoreInscription ==
    /\ scan.pc = "store"
    /\ scan.inscriptions # << >>
    /\ \E ok \in BOOLEAN : scan' = StoreOne(scan, ok)
    /\ ScanUnchanged

BatchDone ==
    /\ scan.pc = "store"
    /\ scan.inscriptions = << >>
    /\ scan' = BatchEnd(scan)
    /\ ScanUnchanged

NextScan ==
    \/ ChainGrows
    \/ GetBlockCount
    \/ GetBlockCountFails
    \/ MockRange
    \/ BatchStart
    \/ ScanCompletes
    \/ FetchBlock
    \/ MockBlockMade
    \/ FetchDone
    \/ ProcessBatch
    \/ StoreInscription
    \/ BatchDone

SpecScan == InitScan /\ [][NextScan]_vars

(***************************************************************************)
(* impl Serialize / Deserialize for Inscription, through serde_json.       *)
(* A JSON document is kept as its tree; a string node holds the characters *)
(* between its quotes as serde_json writes them (escaped), a number node   *)
(* its value.  Result::Ok(v) is Some(v), Result::Err(_) is None.           *)
(***************************************************************************)
JStr(raw) == [ t |-> "str", raw |-> raw ]
JNum(n) == [ t |-> "num", n |-> n ]
JSeq(items) == [ t |-> "seq", items |-> items ]
JMap(entries) == [ t |-> "map", entries |-> entries ]

\* the ASCII codes of HexChars
HexAscii == << 48, 49, 50, 51, 52, 53, 54, 55, 56, 57, 97, 98, 99, 100, 101, 102 >>

ToAscii(chars) == [ i \in 1..Len(chars) |-> HexAscii[HexVal(chars[i]) + 1] ]

IsHexAscii(b) == \E v \in 1..16 : HexAscii[v] = b

FromAscii(bytes) ==
    [ i \in 1..Len(bytes) |-> HexChars[CHOOSE v \in 1..16 : HexAscii[v] = bytes[i]] ]

Reverse(q) == [ i \in 1..Len(q) |-> q[Len(q) + 1 - i] ]

\* mutant: the txid is printed in its stored byte order
TxidToString_forward(txid) == ToAscii(hex_encode(txid))

\* Txid::to_string: the bytes in reverse order, in lower-case hex
TxidToString(txid) == ToAscii(hex_encode(Reverse(txid)))

\* Txid::from_str: 2 * TxidLen hex digits, read back into reversed bytes
TxidFromStr(str) ==
    IF Len(str) # 2 * TxidLen \/ \E i \in DOMAIN str : ~IsHexAscii(str[i]) THEN None
    ELSE Some(Reverse(HexPairs(FromAscii(str))))

\* serde_json format_escaped_str: one byte of a string as written
EscapeByte(b) ==
    IF b = 34 THEN << 92, 34 >>
    ELSE IF b = 92 THEN << 92, 92 >>
    ELSE IF b = 8 THEN << 92, 98 >>
    ELSE IF b = 12 THEN << 92, 102 >>
    ELSE IF b = 10 THEN << 92, 110 >>
    ELSE IF b = 13 THEN << 92, 114 >>
    ELSE IF b = 9 THEN << 92, 116 >>
    ELSE IF b < 32
        THEN << 92, 117, 48, 48, HexAscii[(b \div 16) + 1], HexAscii[(b % 16) + 1] >>
    ELSE << b >>

RECURSIVE JsonEscape(_)
JsonEscape(bytes) ==
    IF bytes = << >> THEN << >>
    ELSE EscapeByte(Head(bytes)) \o JsonEscape(Tail(bytes))

\* the byte a two-character escape stands for, -1 when there is none
SimpleEscape(c) ==
    IF c = 34 THEN 34
    ELSE IF c = 92 THEN 92
    ELSE IF c = 47 THEN 47
    ELSE IF c = 98 THEN 8
    ELSE IF c = 102 THEN 12
    ELSE IF c = 110 THEN 10
    ELSE IF c = 114 THEN 13
    ELSE IF c = 116 THEN 9
    ELSE -1

HexDigitVal(b) == (CHOOSE v \in 1..16 : HexAscii[v] = b) - 1

\* the UTF-8 bytes of a code point below 0x10000
EncodeUtf8(n) ==
    IF n < 128 THEN << n >>
    ELSE IF n < 2048 THEN << 192 + (n \div 64), 128 + (n % 64) >>
    ELSE << 224 + (n \div 4096), 128 + ((n \div 64) % 64), 128 + (n % 64) >>

\* serde_json parse_str: the string a raw text stands for, None when it is
\* no JSON string body (a bare control character or quote, a bad escape, a
\* surrogate escape on its own)
RECURSIVE JsonUnescape(_)
JsonUnescape(raw) ==
    IF raw = << >> THEN Some(<< >>)
    ELSE IF raw[1] = 92
        THEN IF Len(raw) < 2 THEN None
             ELSE IF raw[2] = 117
                 THEN IF Len(raw) < 6 \/ \E i \in 3..6 : ~IsHexAscii(raw[i]) THEN None
                      ELSE LET n == 4096 * HexDigitVal(raw[3]) + 256 * HexDigitVal(raw[4])
                                      + 16 * HexDigitVal(raw[5]) + HexDigitVal(raw[6])
                               rest == JsonUnescape(SubSeq(raw, 7, Len(raw)))
                           IN IF (n >= 55296 /\ n <= 57343) \/ rest = None THEN None
                              ELSE Some(EncodeUtf8(n) \o rest.value)
             ELSE LET rest == JsonUnescape(SubSeq(raw, 3, Len(raw))) IN
                  IF SimpleEscape(raw[2]) = -1 \/ rest = None THEN None
                  ELSE Some(<< SimpleEscape(raw[2]) >> \o rest.value)
    ELSE IF raw[1] < 32 \/ raw[1] = 34 THEN None
    ELSE LET rest == JsonUnescape(Tail(raw)) IN
         IF rest = None THEN None ELSE Some(<< raw[1] >> \o rest.value)

\* <String as Deserialize>: a string node whose text is a JSON string body
DeserializeString(j) == IF j.t = "str" THEN JsonUnescape(j.raw) ELSE None

\* <Vec<u8> as Serialize>: a sequence of numbers
SerializeBytes(bytes) == JSeq([ i \in 1..Len(bytes) |-> JNum(bytes[i]) ])

\* <Vec<u8> as Deserialize>: a sequence of numbers that fit a u8
DeserializeBytes(j) ==
    IF j.t # "seq" THEN None
    ELSE IF \E i \in DOMAIN j.items :
               j.items[i].t # "num" \/ j.items[i].n < 0 \/ j.items[i].n > 255
        THEN None
    ELSE Some([ i \in 1..Len(j.items) |-> j.items[i].n ])

\* #[derive(Serialize)] for InscriptionType: the variant name as the only key
SerializeContent(c) ==
    IF c.variant = "Text" THEN JMap(<< << "Text", JStr(JsonEscape(c.text)) >> >>)
    ELSE IF c.variant = "Image"
        THEN JMap(<< << "Image",
                        JMap(<< << "mime_type", JStr(JsonEscape(c.mime_type)) >>,
                                << "data", SerializeBytes(c.data) >> >>) >> >>)
    ELSE JMap(<< << "Unknown", SerializeBytes(c.data) >> >>)

\* the value of the only entry with the key, None when there is none or several
FieldOf(entries, key) ==
    LET at == { i \in DOMAIN entries : entries[i][1] = key } IN
    IF Cardinality(at) # 1 THEN None ELSE Some(entries[CHOOSE i \in at : TRUE][2])

\* the struct variant Image { mime_type, data } from a map
DeserializeImage(j) ==
    IF j.t # "map" THEN None
    ELSE LET m == FieldOf(j.entries, "mime_type")
             d == FieldOf(j.entries, "data")
         IN IF m = None \/ d = None THEN None
            ELSE LET mime == DeserializeString(m.value)
                     data == DeserializeBytes(d.value)
                 IN IF mime = None \/ data = None THEN None
                    ELSE Some(Image(mime.value, data.value))

\* #[derive(Deserialize)] for InscriptionType: a map of one entry, keyed by
\* the variant name
DeserializeContent(j) ==
    IF j.t # "map" \/ Len(j.entries) # 1 THEN None
    ELSE LET key == j.entries[1][1]
             val == j.entries[1][2]
         IN IF key = "Text"
                THEN LET t == DeserializeString(val) IN
                     IF t = None THEN None ELSE Some(Text(t.value))
            ELSE IF key = "Image" THEN DeserializeImage(val)
            ELSE IF key = "Unknown"
                THEN LET d == DeserializeBytes(val) IN
                     IF d = None THEN None ELSE Some(Unknown(d.value))
            ELSE None

\* Inscription::serialize: a struct of the two fields txid and content
SerializeInscription(v) ==
    JMap(<< << "txid", JStr(JsonEscape(TxidToString(v.txid))) >>,
            << "content", SerializeContent(v.content) >> >>)

\* the state of one serde_json::to_string followed by serde_json::from_str
SerStart(v) ==
    [ pc |-> "start", value |-> v, json |-> JNum(0), map |-> << >>,
      txid |-> None, content |-> None, result |-> None ]

\* deserialize_map: the visitor is entered on a map
VisitMap(st) ==
    IF st.json.t = "map"
    THEN [st EXCEPT !.pc = "visit", !.map = st.json.entries]
    ELSE [st EXCEPT !.pc = "done", !.result = None]

\* one iteration of "while let Some(key) = map.next_key::<String>()?"
VisitKey(st) ==
    LET key == Head(st.map)[1]
        val == Head(st.map)[2]
        failed == [st EXCEPT !.pc = "done", !.result = None]
    IN IF key = "txid"
           THEN LET str == DeserializeString(val) IN
                IF str = None THEN failed
                ELSE LET id == TxidFromStr(str.value) IN
                     IF id = None THEN failed
                     ELSE [st EXCEPT !.txid = Some(id.value), !.map = Tail(st.map)]
       ELSE IF key = "content"
           THEN LET c == DeserializeContent(val) IN
                IF c = None THEN failed
                ELSE [st EXCEPT !.content = Some(c.value), !.map = Tail(st.map)]
       ELSE failed

\* after the loop: both fields are required
VisitEnd(st) ==
    IF st.txid = None \/ st.content = None
    THEN [st EXCEPT !.pc = "done", !.result = None]
    ELSE [st EXCEPT !.pc = "done",
                    !.result = Some([ txid |-> st.txid.value,
                                      content |-> st.content.value ])]

(***************************************************************************)
(* SpecSerde: one Inscription is serialized and read back.                 *)
(***************************************************************************)
\* bytes that serde_json writes in each of its ways: a quote, a backslash, a
\* newline, another control character, a letter, the two bytes of U+00E9
SerdeBytes == { 34, 92, 10, 1, 97, 195, 169 }

SerdeStrings(n) == { b \in SeqsUpTo(SerdeBytes, n) : Utf8From(b, 1) }

Txids == [1..TxidLen -> { 0, 171 }]

Contents ==
    { Text(t) : t \in SerdeStrings(MaxPayloadLen) }
    \cup { Image(m, d) : m \in SerdeStrings(MaxImageFieldLen),
                         d \in SeqsUpTo(SerdeBytes, MaxImageFieldLen) }
    \cup { Unknown(d) : d \in SeqsUpTo(SerdeBytes, MaxPayloadLen) }

InitSerde ==
    /\ \E id \in Txids, c \in Contents : ser = SerStart([ txid |-> id, content |-> c ])
    /\ img = IdleImg
    /\ txt = IdleTxt
    /\ ScanIdle
    /\ NodeIdle
    /\ DriverIdle
    /\ ExtractIdle
    /\ ScriptIdle
    /\ TxIdle

SerdeUnchanged ==
    UNCHANGED <<node, script_sig, ex, script, ps, tx, pt, blocks, batch_size, dpc, slots,
                returned, scan, img, txt>>

\* serde_json::to_string(&inscription)
JsonToString ==
    /\ ser.pc = "start"
    /\ ser' = [ser EXCEPT !.pc = "serialized", !.json = SerializeInscription(ser.value)]
    /\ SerdeUnchanged

\* serde_json::from_str(&json) enters Inscription::deserialize
JsonFromStr ==
    /\ ser.pc = "serialized"
    /\ ser' = VisitMap(ser)
    /\ SerdeUnchanged

NextKey ==
    /\ ser.pc = "visit"
    /\ ser.map # << >>
    /\ ser' = VisitKey(ser)
    /\ SerdeUnchanged

NoMoreKeys ==
    /\ ser.pc = "visit"
    /\ ser.map = << >>
    /\ ser' = VisitEnd(ser)
    /\ SerdeUnchanged

NextSerde ==
    \/ JsonToString
    \/ JsonFromStr
    \/ NextKey
    \/ NoMoreKeys

SpecSerde == InitSerde /\ [][NextSerde]_vars

(***************************************************************************)
(* ImageStorage (src/src/storage/image.rs).  The directory is a function   *)
(* from file names to file contents.  The result of get is None for        *)
(* Ok(None), Some(<<mime_type, data>>) for Ok(Some(..)) and ImageError for *)
(* Err(StorageError::ImageError(_)).                                       *)
(***************************************************************************)
ImageError == [ tag |-> "ImageError" ]

\* blake3::hash(data): distinct data, distinct hashes
Blake3(data) == [ blake3 |-> data ]

\* format!("{}-{}.bin", txid, hash)
ImageFileName(txid, hash) == << TxidToString(txid), hash >>

\* the index of the first b'\n' of the content, 0 when it has none
FirstNewline(content) ==
    IF \E i \in DOMAIN content : content[i] = 10
    THEN CHOOSE i \in DOMAIN content :
            content[i] = 10 /\ \A j \in 1..(i - 1) : content[j] # 10
    ELSE 0

\* content.splitn(2, |&b| b == b'\n'): one part, or the two parts around the
\* first newline
SplitN2(content) ==
    LET k == FirstNewline(content) IN
    IF k = 0 THEN << content >>
    ELSE << SubSeq(content, 1, k - 1), SubSeq(content, k + 1, Len(content)) >>

\* ImageStorage::store, File::create and the writes succeeding
ImageStoreFile(fs, txid, mime_type, data) ==
    LET name == ImageFileName(txid, Blake3(data)) IN
    [ n \in DOMAIN fs \cup { name } |->
        IF n = name THEN mime_type \o << 10 >> \o data ELSE fs[n] ]

\* ImageStorage::get
ImageGetFile(fs, txid, hash) ==
    LET name == ImageFileName(txid, hash) IN
    IF name \notin DOMAIN fs THEN None
    ELSE LET parts == SplitN2(fs[name]) IN
         IF FromUtf8(parts[1]) = None THEN ImageError
         ELSE IF Len(parts) < 2 THEN ImageError
         ELSE Some(<< parts[1], parts[2] >>)

(***************************************************************************)
(* SpecImage: one store into a directory, then one get.                    *)
(***************************************************************************)
\* bytes of a stored image: a newline, a control byte, a byte above 127
ImageBytes == { 10, 1, 137 }

\* the MIME types of Image inscriptions: "image/" and what follows it
ImageMimes ==
    { ImagePrefix \o t : t \in { u \in SeqsUpTo({ 10, 112 }, MaxImageFieldLen) :
                                   Utf8From(u, 1) } }

ImageDatas == SeqsUpTo(ImageBytes, MaxImageFieldLen)

\* the directory before the store: empty, or holding an older file of the name
ImageDirs(txid, data) ==
    { << >> } \cup
    { [ n \in { ImageFileName(txid, Blake3(data)) } |-> << 120 >> ] }

InitImage ==
    /\ \E id \in Txids, m \in ImageMimes, d \in ImageDatas :
         \E dir \in ImageDirs(id, d) :
            img = [ pc |-> "start", txid |-> id, mime_type |-> m, data |-> d,
                    fs |-> dir, asked |-> << >>, got |-> None ]
    /\ ser = IdleSer
    /\ txt = IdleTxt
    /\ ScanIdle
    /\ NodeIdle
    /\ DriverIdle
    /\ ExtractIdle
    /\ ScriptIdle
    /\ TxIdle

ImageUnchanged ==
    UNCHANGED <<node, script_sig, ex, script, ps, tx, pt, blocks, batch_size, dpc, slots,
                returned, scan, ser, txt>>

\* store returns Ok(())
ImageStore ==
    /\ img.pc = "start"
    /\ img' = [img EXCEPT !.pc = "stored",
                          !.fs = ImageStoreFile(img.fs, img.txid, img.mime_type,
                                                img.data)]
    /\ ImageUnchanged

\* File::create fails: store returns Err and nothing is written
ImageStoreFails ==
    /\ img.pc = "start"
    /\ img' = [img EXCEPT !.pc = "failed"]
    /\ ImageUnchanged

\* get(txid, blake3::hash(d)) for some data d
ImageGet ==
    /\ img.pc = "stored"
    /\ \E d \in ImageDatas :
          img' = [img EXCEPT !.pc = "got", !.asked = d,
                             !.got = ImageGetFile(img.fs, img.txid, Blake3(d))]
    /\ ImageUnchanged

NextImage ==
    \/ ImageStore
    \/ ImageStoreFails
    \/ ImageGet

SpecImage == InitImage /\ [][NextImage]_vars

(***************************************************************************)
(* TextStorage (src/src/storage/text.rs).  The log file is its bytes.      *)
(* A TextEntry is [txid, content, timestamp], txid and content as strings. *)
(***************************************************************************)
\* the decimal digits of a u64
RECURSIVE Digits(_)
Digits(n) == IF n < 10 THEN << 48 + n >> ELSE Digits(n \div 10) \o << 48 + (n % 10) >>

RECURSIVE DigitsValue(_)
DigitsValue(d) ==
    IF Len(d) = 1 THEN d[1] - 48
    ELSE 10 * DigitsValue(SubSeq(d, 1, Len(d) - 1)) + (d[Len(d)] - 48)

\* {"txid":"
EntryOpen == << 123, 34, 116, 120, 105, 100, 34, 58, 34 >>
\* ","content":"
EntryContent == << 34, 44, 34, 99, 111, 110, 116, 101, 110, 116, 34, 58, 34 >>
\* ","timestamp":
EntryTimestamp ==
    << 34, 44, 34, 116, 105, 109, 101, 115, 116, 97, 109, 112, 34, 58 >>
\* }
EntryClose == << 125 >>

\* serde_json::to_writer(&mut writer, &entry): the derived struct serialization
EntryToJson(entry) ==
    EntryOpen \o JsonEscape(entry.txid) \o EntryContent \o JsonEscape(entry.content)
        \o EntryTimestamp \o Digits(entry.timestamp) \o EntryClose

\* the index of the quote that closes the string body starting at i, 0 when
\* the line ends first
RECURSIVE StringEnd(_, _)
StringEnd(line, i) ==
    IF i > Len(line) THEN 0
    ELSE IF line[i] = 92 THEN StringEnd(line, i + 2)
    ELSE IF line[i] = 34 THEN i
    ELSE StringEnd(line, i + 1)

LitAt(line, i, lit) ==
    i + Len(lit) - 1 <= Len(line) /\ SubSeq(line, i, i + Len(lit) - 1) = lit

\* serde_json::from_str::<TextEntry>(&l) on a line in the layout to_writer
\* gives; anything else is an error (None)
ParseEntry(line) ==
    IF ~LitAt(line, 1, EntryOpen) THEN None
    ELSE LET a == Len(EntryOpen) + 1
             b == StringEnd(line, a)
         IN IF b = 0 \/ ~LitAt(line, b, EntryContent) THEN None
            ELSE LET c == b + Len(EntryContent)
                     d == StringEnd(line, c)
                 IN IF d = 0 \/ ~LitAt(line, d, EntryTimestamp) THEN None
                    ELSE LET f == d + Len(EntryTimestamp)
                             num == SubSeq(line, f, Len(line) - 1)
                             id == JsonUnescape(SubSeq(line, a, b - 1))
                             body == JsonUnescape(SubSeq(line, c, d - 1))
                         IN IF \/ line[Len(line)] # 125
                               \/ num = << >>
                               \/ \E k \in DOMAIN num : num[k] < 48 \/ num[k] > 57
                               \/ id = None
                               \/ body = None
                            THEN None
                            ELSE Some([ txid |-> id.value, content |-> body.value,
                                        timestamp |-> DigitsValue(num) ])

\* BufRead::lines: the pieces between line feeds, a last piece without one
\* included when it is not empty, a carriage return before the line feed dropped
RECURSIVE Lines(_)
Lines(bytes) ==
    IF bytes = << >> THEN << >>
    ELSE LET k == FirstNewline(bytes) IN
         IF k = 0 THEN << bytes >>
         ELSE LET piece == SubSeq(bytes, 1, k - 1)
                  line == IF piece # << >> /\ piece[Len(piece)] = 13
                          THEN SubSeq(piece, 1, Len(piece) - 1) ELSE piece
              IN << line >> \o Lines(SubSeq(bytes, k + 1, Len(bytes)))

\* TextStorage::read_entries, collected: one Ok(entry) or Err per line
ReadEntries(log) == [ i \in 1..Len(Lines(log)) |-> ParseEntry(Lines(log)[i]) ]

\* mutant: the log is created anew whenever it is opened
TextNewFile_truncate(log) == << >>

\* TextStorage::new on an existing log: File::create is skipped
TextNewFile(log) == log

\* TextStorage::store returning Ok(()): the entry and a line feed are appended
TextStoreFile(log, txid, content, timestamp) ==
    log \o EntryToJson([ txid |-> TxidToString(txid), content |-> content,
                         timestamp |-> timestamp ]) \o << 10 >>

(***************************************************************************)
(* SpecText: a log made by TextStorage::new, then stores, re-openings and  *)
(* reads in any order.                                                     *)
(***************************************************************************)
\* two txids
TextTxids == { [ i \in 1..TxidLen |-> b ] : b \in { 0, 171 } }

\* contents with a line feed, a carriage return and line feed, a quote and a
\* backslash, a control character, non-ASCII text, and the empty one
TextContents ==
    { << >>, << 10 >>, << 97, 13, 10 >>, << 34, 92 >>, << 1 >>, << 97, 195, 169 >> }

\* SystemTime::now() in seconds
Timestamps == { 7, 10 }

InitText ==
    /\ txt = [ pc |-> "new", log |-> << >>, calls |-> << >>, entries |-> << >> ]
    /\ ser = IdleSer
    /\ img = IdleImg
    /\ ScanIdle
    /\ NodeIdle
    /\ DriverIdle
    /\ ExtractIdle
    /\ ScriptIdle
    /\ TxIdle

TextUnchanged ==
    UNCHANGED <<node, script_sig, ex, script, ps, tx, pt, blocks, batch_size, dpc, slots,
                returned, scan, ser, img>>

\* store(txid, content) returns Ok(())
TextStore ==
    /\ txt.pc # "idle"
    /\ Len(txt.calls) < MaxStores
    /\ \E id \in TextTxids, c \in TextContents, now \in Timestamps :
          txt' = [txt EXCEPT !.pc = "stored",
                             !.log = TextStoreFile(txt.log, id, c, now),
                             !.calls = Append(@, [ txid |-> id, content |-> c ]),
                             !.entries = << >>]
    /\ TextUnchanged

\* OpenOptions::open fails: store returns Err and the log is as before
TextStoreFails ==
    /\ txt.pc # "idle"
    /\ txt' = [txt EXCEPT !.pc = "store_failed", !.entries = << >>]
    /\ TextUnchanged

\* TextStorage::new again on the same path
TextReopen ==
    /\ txt.pc # "idle"
    /\ txt' = [txt EXCEPT !.pc = "new", !.log = TextNewFile(txt.log),
                          !.entries = << >>]
    /\ TextUnchanged

\* read_entries, collected
TextRead ==
    /\ txt.pc # "idle"
    /\ txt' = [txt EXCEPT !.pc = "read", !.entries = ReadEntries(txt.log)]
    /\ TextUnchanged

NextText ==
    \/ TextStore
    \/ TextStoreFails
    \/ TextReopen
    \/ TextRead

SpecText == InitText /\ [][NextText]_vars

(***************************************************************************)
(* NodeClient (src/src/node/client.rs).  The record st holds               *)
(*   max      config.node.max_concurrent_requests                          *)
(*   permits  the permits the semaphore has available                      *)
(*   queue    the tasks waiting in semaphore.acquire(), first come first   *)
(*   task     per calling task, where it is: "idle" (no call made yet),    *)
(*            "waiting" (in acquire), "convert", "rpc", "decode",          *)
(*            "deserialize" (in get_block, holding _permit, before the     *)
(*            statement of that name), "hash", "count" (in get_block_hash, *)
(*            get_block_count), "ok", "err" (its last call returned that)  *)
(***************************************************************************)
Callers == 1..MaxCallers

\* NodeClient::new: Semaphore::new(config.node.max_concurrent_requests)
NodeNew(n) ==
    [ pc |-> "ready", max |-> n, permits |-> n, queue |-> << >>,
      task |-> [ t \in Callers |-> "idle" ] ]

\* where a task is while it holds _permit
Holding == { "convert", "rpc", "decode", "deserialize" }

\* where a task is when it can make a call
Resting == { "idle", "ok", "err" }

\* self.semaphore.acquire().await: a permit at once when one is available and
\* nobody waits, else the task joins the queue
Acquire(st, t) ==
    IF st.permits > 0 /\ st.queue = << >>
    THEN [st EXCEPT !.permits = @ - 1, !.task[t] = "convert"]
    ELSE [st EXCEPT !.queue = Append(@, t), !.task[t] = "waiting"]

\* mutant: the permit of a call that returns is kept
DropPermit_leak(st) == st

\* _permit goes out of scope: the permit goes to the first waiting task, or
\* back to the semaphore
DropPermit(st) ==
    IF st.queue # << >>
    THEN [st EXCEPT !.queue = Tail(@), !.task[Head(st.queue)] = "convert"]
    ELSE [st EXCEPT !.permits = @ + 1]

\* the statement after the current one in get_block
NextStage(stage) ==
    IF stage = "convert" THEN "rpc"
    ELSE IF stage = "rpc" THEN "decode"
    ELSE "deserialize"

\* one statement of get_block after the acquire: "?" returns the error, the
\* last statement returns its result
BlockStatement(st, t, ok) ==
    IF ~ok THEN DropPermit([st EXCEPT !.task[t] = "err"])
    ELSE IF st.task[t] = "deserialize" THEN DropPermit([st EXCEPT !.task[t] = "ok"])
    ELSE [st EXCEPT !.task[t] = NextStage(st.task[t])]

(***************************************************************************)
(* SpecNode: tasks calling one NodeClient concurrently.  SpecNodeFair adds *)
(* that a call inside get_block, past the acquire, takes its next step:    *)
(* those statements are synchronous and wait for nothing but the RPC.      *)
(***************************************************************************)
InitNode ==
    /\ \E n \in 0..MaxPermits : node = NodeNew(n)
    /\ ScanIdle
    /\ StorageIdle
    /\ DriverIdle
    /\ ExtractIdle
    /\ ScriptIdle
    /\ TxIdle

NodeUnchanged ==
    UNCHANGED <<script_sig, ex, script, ps, tx, pt, blocks, batch_size, dpc, slots,
                returned, scan, ser, img, txt>>

\* a task calls get_block
CallGetBlock(t) ==
    /\ node.pc = "ready"
    /\ node.task[t] \in Resting
    /\ node' = Acquire(node, t)
    /\ NodeUnchanged

\* a task in get_block executes its next statement
GetBlockStep(t) ==
    /\ node.pc = "ready"
    /\ node.task[t] \in Holding
    /\ \E ok \in BOOLEAN : node' = BlockStatement(node, t, ok)
    /\ NodeUnchanged

\* a task calls get_block_hash
CallGetBlockHash(t) ==
    /\ node.pc = "ready"
    /\ node.task[t] \in Resting
    /\ node' = [node EXCEPT !.task[t] = "hash"]
    /\ NodeUnchanged

\* a task calls get_block_count
CallGetBlockCount(t) ==
    /\ node.pc = "ready"
    /\ node.task[t] \in Resting
    /\ node' = [node EXCEPT !.task[t] = "count"]
    /\ NodeUnchanged

\* get_block_hash or get_block_count returns
PlainReturn(t) ==
    /\ node.pc = "ready"
    /\ node.task[t] \in {"hash", "count"}
    /\ \E ok \in BOOLEAN : node' = [node EXCEPT !.task[t] = IF ok THEN "ok" ELSE "err"]
    /\ NodeUnchanged

GetBlockCalled == \E t \in Callers : CallGetBlock(t)
GetBlockRuns == \E t \in Callers : GetBlockStep(t)
GetBlockHashCalled == \E t \in Callers : CallGetBlockHash(t)
GetBlockCountCalled == \E t \in Callers : CallGetBlockCount(t)
PlainCallReturns == \E t \in Callers : PlainReturn(t)

NextNode ==
    \/ GetBlockCalled
    \/ GetBlockRuns
    \/ GetBlockHashCalled
    \/ GetBlockCountCalled
    \/ PlainCallReturns

SpecNode == InitNode /\ [][NextNode]_vars

SpecNodeFair ==
    InitNode /\ [][NextNode]_vars /\ \A t \in Callers : WF_vars(GetBlockStep(t))

(***************************************************************************)
(* Reference reading of an output script, from the protocol description:   *)
(* the envelope, where it ends, where its separator is, and what the two   *)
(* buffers hold.                                                           *)
(***************************************************************************)
Min(S) == CHOOSE x \in S : \A y \in S : x <= y

\* the script starts with the ordinal start sequence
EnvAccepted(s) == Len(s) >= 2 /\ s[1] \in ZeroForms /\ s[2] = Op(OP_IF)

\* index of the first OP_ENDIF or Err at or after item 3, Len(s) + 1 when none
EnvEnd(s) ==
    LET stops == { j \in 3..Len(s) : s[j] = Op(OP_ENDIF) \/ s[j] = Err }
    IN  IF stops = {} THEN Len(s) + 1 ELSE Min(stops)

\* index of the first zero form directly after a push inside the envelope, 0 when none
SeparatorPos(s) ==
    LET seps == { i \in 4..(EnvEnd(s) - 1) :
                    s[i - 1].kind = "PushBytes" /\ s[i] \in ZeroForms }
    IN  IF seps = {} THEN 0 ELSE Min(seps)

\* in-order concatenation of the payloads of the pushes at indices lo..hi
RECURSIVE ConcatPushes(_, _, _)
ConcatPushes(s, lo, hi) ==
    IF lo > hi THEN << >>
    ELSE (IF s[lo].kind = "PushBytes" THEN s[lo].data ELSE << >>)
         \o ConcatPushes(s, lo + 1, hi)

RefContentType(s) ==
    IF SeparatorPos(s) = 0 THEN ConcatPushes(s, 3, EnvEnd(s) - 1)
    ELSE ConcatPushes(s, 3, SeparatorPos(s) - 1)

RefContent(s) ==
    IF SeparatorPos(s) = 0 THEN << >>
    ELSE ConcatPushes(s, SeparatorPos(s) + 1, EnvEnd(s) - 1)

(***************************************************************************)
(* C5: parse_script enters the envelope only when the first instruction is *)
(* a zero form and the second is OP_IF; every other script (empty, one     *)
(* item, non-zero first item, second item not OP_IF, a decode error in     *)
(* either position) yields nothing.                                        *)
(***************************************************************************)
C5_LeadInGate ==
    /\ (ps.pc \in {"loop", "end"} => EnvAccepted(script))
    /\ (ps.pc = "done" /\ ~EnvAccepted(script) => ps.result = None)

\* scenario S6: Push("text/plain;charset=utf-8") OP_IF ... was parsed to nothing
C5_Witness ==
    /\ ps.pc = "done"
    /\ Len(script) = 3
    /\ script[1] = PushBytes(TextPlain)
    /\ script[2] = Op(OP_IF)
    /\ ps.result = None

(***************************************************************************)
(* C6: the zero forms are interchangeable: replacing the zero form in the  *)
(* lead-in position, or the one in the separator position directly after a *)
(* content-type push, by any other zero form leaves the result of          *)
(* parse_script unchanged.                                                 *)
(***************************************************************************)
C6_ZeroFormsInterchangeable ==
    ps.pc = "done" =>
        \A z \in ZeroForms :
            /\ (Len(script) >= 1 /\ script[1] \in ZeroForms
                  => parse_script([script EXCEPT ![1] = z]) = ps.result)
            /\ (EnvAccepted(script) /\ SeparatorPos(script) # 0
                  => parse_script([script EXCEPT ![SeparatorPos(script)] = z])
                       = ps.result)

\* an empty push as lead-in and OP_0 as separator produced a Text inscription
C6_Witness ==
    /\ ps.pc = "done"
    /\ EnvAccepted(script)
    /\ script[1] = PushBytes(<< >>)
    /\ SeparatorPos(script) = 4
    /\ script[4] = Op(OP_0)
    /\ ps.result = Some(Text(ImagePrefix))

(***************************************************************************)
(* C7: on leaving the loop, content_type is the in-order concatenation of  *)
(* the payloads of the pushes before the separator, content that of the    *)
(* pushes after it, and the separator contributes to neither.              *)
(***************************************************************************)
C7_BuffersAreConcatenations ==
    ps.pc = "end" =>
        /\ ps.content_type = RefContentType(script)
        /\ ps.content = RefContent(script)

\* two content-type pushes 0xC3, 0xA9 were joined, and a content push followed
C7_Witness ==
    /\ ps.pc = "end"
    /\ EnvAccepted(script)
    /\ Len(script) = 6
    /\ script[3] = PushBytes(LeadByte)
    /\ script[4] = PushBytes(ContByte)
    /\ SeparatorPos(script) = 5
    /\ ps.content_type = LeadByte \o ContByte
    /\ ps.content = TextPlain

(***************************************************************************)
(* C8: in the loop an opcode other than OP_ENDIF is skipped with phase and *)
(* buffers unchanged; OP_ENDIF leaves the loop; once the loop is left no   *)
(* further item is read, so the result is that of the script cut after its *)
(* first OP_ENDIF.                                                         *)
(***************************************************************************)
C8_OpcodeStep ==
    /\ (ps.pc = "loop" /\ ps.rest # << >> /\ ps.rest[1].kind = "Op")
         => IF ps.rest[1].op = OP_ENDIF
            THEN ps' = [ps EXCEPT !.pc = "end", !.rest = Tail(ps.rest)]
            ELSE ps' = [ps EXCEPT !.rest = Tail(ps.rest)]
    /\ ps.pc = "end" => ps'.rest = ps.rest

C8_CutAfterEndif ==
    (ps.pc = "done" /\ EnvAccepted(script) /\ EnvEnd(script) <= Len(script)
       /\ script[EnvEnd(script)] = Op(OP_ENDIF))
      => ps.result = parse_script(SubSeq(script, 1, EnvEnd(script)))

\* C8: every step of the loop on an opcode skips it unless it is OP_ENDIF, which
\* leaves the loop, and the result is that of the script cut after its first OP_ENDIF
C8_OnlyEndifTerminates == [][C8_OpcodeStep]_vars /\ []C8_CutAfterEndif

\* a nested OP_IF was skipped, OP_ENDIF ended the envelope, a push followed it
C8_Witness ==
    /\ ps.pc = "done"
    /\ EnvAccepted(script)
    /\ Len(script) = 6
    /\ script[3] = Op(OP_IF)
    /\ script[4] = PushBytes(TextPlain)
    /\ script[5] = Op(OP_ENDIF)
    /\ script[6] = PushBytes(LeadByte)
    /\ ps.result = Some(Text(<< >>))

(***************************************************************************)
(* C9: an envelope that reaches end of stream without OP_ENDIF is          *)
(* completed: the classifier runs on the buffers accumulated so far and    *)
(* its variant, if any, is the result.                                     *)
(***************************************************************************)
C9_EndOfStreamCompletes ==
    (ps.pc = "done" /\ EnvAccepted(script) /\ EnvEnd(script) = Len(script) + 1)
      => ps.result = classify_inscription(RefContentType(script), RefContent(script))

\* no OP_ENDIF and no error in the script, and an Image was emitted
C9_Witness ==
    /\ ps.pc = "done"
    /\ EnvAccepted(script)
    /\ EnvEnd(script) = Len(script) + 1
    /\ ps.reading_content_type = FALSE
    /\ ps.result = Some(Image(ImagePrefix, LeadByte))

(***************************************************************************)
(* C10 as claimed: a decode error inside the IF block is skipped, the      *)
(* parser stays in its in-IF phase and the error is no terminator.         *)
(***************************************************************************)
C10_ErrSkippedStep ==
    (ps.pc = "loop" /\ ps.rest # << >> /\ ps.rest[1] = Err)
      => ps' = [ps EXCEPT !.rest = Tail(ps.rest)]

C10_ErrStep ==
    /\ (ps.pc = "loop" /\ ps.rest # << >> /\ ps.rest[1] = Err)
         => ps' = [ps EXCEPT !.pc = "end", !.rest = Tail(ps.rest)]
    /\ (ps.pc = "loop" /\ Len(ps.rest) >= 2 /\ ps.rest[1].kind = "PushBytes"
          /\ ps.rest[2] = Err)
         => /\ ps'.pc = "loop"
            /\ ps'.reading_content_type = ps.reading_content_type
            /\ ps'.rest = Tail(ps.rest)

C10_ErrResult ==
    (ps.pc = "done" /\ EnvAccepted(script) /\ script[Len(script)] = Err)
      => /\ ps.result
              = classify_inscription(RefContentType(script), RefContent(script))
         /\ ps.result = parse_script(SubSeq(script, 1, Len(script) - 1))

CoinbaseHits(t) ==
    { i \in DOMAIN t.input :
        /\ t.input[i].previous_output = "null"
        /\ extract_text_from_script(t.input[i].script_sig) # None }

OutputHits(t) ==
    { j \in DOMAIN t.output : parse_script(t.output[j].script_pubkey) # None }

(***************************************************************************)
(* C1: parse_transaction returns at most one Inscription, the first hit in *)
(* the order coinbase inputs, then outputs: Text of the first coinbase     *)
(* input that yields text whatever the outputs hold, else the variant of   *)
(* the first output that yields one, else nothing; an earlier input or     *)
(* output that yields nothing does not end the search.                     *)
(***************************************************************************)
C1_FirstHitWins ==
    pt.pc = "done" =>
        IF CoinbaseHits(tx) # {}
        THEN /\ pt.result # None
             /\ pt.result.value.content
                  = Text(extract_text_from_script(
                           tx.input[Min(CoinbaseHits(tx))].script_sig).value)
        ELSE IF OutputHits(tx) # {}
        THEN /\ pt.result # None
             /\ pt.result.value.content
                  = parse_script(tx.output[Min(OutputHits(tx))].script_pubkey).value
        ELSE pt.result = None

\* a coinbase input without text, then one with text, and an output with an Image
C1_Witness ==
    /\ pt.pc = "done"
    /\ Len(tx.input) = 2
    /\ tx.input[1] = TxIn("null", SigTwoPushes)
    /\ tx.input[2] = TxIn("null", SigImageText)
    /\ Len(tx.output) = 1
    /\ tx.output[1] = TxOut(PkImage)
    /\ pt.result.value.content = Text(ImagePrefix)

(***************************************************************************)
(* C4: whenever parse_transaction returns an Inscription, from the         *)
(* coinbase path or from the output path, its txid is the identifier of    *)
(* the transaction parsed.                                                 *)
(***************************************************************************)
C4_TxidIsOfTransaction ==
    (pt.pc = "done" /\ pt.result # None) => pt.result.value.txid = Txid(tx)

\* an inscription from the second output of a transaction with a spending input
C4_Witness ==
    /\ pt.pc = "done"
    /\ Len(tx.input) = 1
    /\ tx.input[1] = TxIn("outpoint", SigText)
    /\ Len(tx.output) = 2
    /\ tx.output[1] = TxOut(PkBadType)
    /\ tx.output[2] = TxOut(PkText)
    /\ pt.result = Some(NewInscription(tx, Text(ImagePrefix)))

(***************************************************************************)
(* C2: for any batch, any batch_size >= 1 and any scheduling of the        *)
(* workers, the results of process_blocks appear in the order of their     *)
(* originating transactions, block order first, then transaction order     *)
(* within the block: a subsequence of the block-then-transaction           *)
(* concatenation of the input.                                             *)
(***************************************************************************)
\* o1 comes strictly before o2 in block-then-transaction order
Before(o1, o2) == o1[1] < o2[1] \/ (o1[1] = o2[1] /\ o1[2] < o2[2])

C2_ResultsInInputOrder ==
    dpc = "returned" =>
        /\ \A k \in DOMAIN returned :
              /\ returned[k].origin \in Tasks(blocks)
              /\ Some(returned[k].text)
                   = FilterMap(blocks[returned[k].origin[1]].txdata[returned[k].origin[2]])
        /\ \A k \in 1..(Len(returned) - 1) :
              Before(returned[k].origin, returned[k + 1].origin)

\* three results from two chunks, returned in input order although the
\* workers finished them in the opposite order
C2_Witness ==
    /\ dpc = "returned"
    /\ batch_size = 1
    /\ Len(blocks) = 2
    /\ Len(returned) = 3
    /\ slots[1].origin = << 2, 1 >>
    /\ slots[2].origin = << 1, 2 >>
    /\ slots[3].origin = << 1, 1 >>
    /\ returned[1].origin = << 1, 1 >>
    /\ returned[3].origin = << 2, 1 >>

(***************************************************************************)
(* C3: process_blocks returns all inscriptions: every transaction of the   *)
(* batch on which parse_transaction returns an inscription (Text, Image or *)
(* Unknown) has exactly one entry in the returned vector.                  *)
(***************************************************************************)
C3_AllInscriptionsReturned ==
    dpc = "returned" =>
        \A o \in Tasks(blocks) :
            parse_transaction(blocks[o[1]].txdata[o[2]]) # None
              => Cardinality({ k \in DOMAIN returned : returned[k].origin = o }) = 1

(***************************************************************************)
(* C11: a script whose instruction stream contains a decode error, in the  *)
(* lead-in or inside the IF block, yields nothing from parse_script.       *)
(***************************************************************************)
C11_DecodeErrorYieldsNothing ==
    (ps.pc = "done" /\ \E k \in DOMAIN script : script[k] = Err)
      => ps.result = None

(***************************************************************************)
(* Reference reading of a signature script: the payloads of its pushes, in *)
(* order, and the items the loop has consumed so far.                      *)
(***************************************************************************)
IsPush(item) == item.kind = "PushBytes"

PushPayloads(s) ==
    LET pushes == SelectSeq(s, IsPush) IN [ k \in 1..Len(pushes) |-> pushes[k].data ]

Consumed == SubSeq(script_sig, 1, Len(script_sig) - Len(ex.rest))

ValidUtf8(bytes) == Utf8From(bytes, 1)

(***************************************************************************)
(* C12: for a coinbase input, extraction counts the decoded pushes only:   *)
(* the count is the number of pushes among the items consumed, whatever    *)
(* opcodes and errors lie between them; when the third push is valid UTF-8 *)
(* the extracted text is exactly its payload and the transaction yields    *)
(* Text of those bytes.                                                    *)
(***************************************************************************)
C12_ThirdPushIsText ==
    /\ ex.pc \in {"loop", "done"} => ex.push_count = Len(PushPayloads(Consumed))
    /\ (ex.pc = "done" /\ Len(PushPayloads(script_sig)) >= 3
          /\ ValidUtf8(PushPayloads(script_sig)[3]))
         => /\ ex.found_text = Some(PushPayloads(script_sig)[3])
            /\ pt.pc = "done"
                 => pt.result
                      = Some([ txid |-> Txid(tx),
                               content |-> Text(PushPayloads(script_sig)[3]) ])

\* a push, an opcode, two more pushes: the text is the payload of the last one
C12_Witness ==
    /\ pt.pc = "done"
    /\ script_sig
         = << PushBytes(LeadByte), Op(OP_IF), PushBytes(ContByte), PushBytes(TextPlain) >>
    /\ ex.push_count = 3
    /\ pt.result # None
    /\ pt.result.value.content = Text(TextPlain)

(***************************************************************************)
(* C13: a coinbase input whose signature script has fewer than three       *)
(* decoded pushes, or whose third push is not valid UTF-8, yields no text; *)
(* parse_transaction goes on with the next input and, after the inputs,    *)
(* with the outputs, so its result is that of what follows the input.      *)
(***************************************************************************)
NoThirdText(s) ==
    Len(PushPayloads(s)) < 3 \/ ~ValidUtf8(PushPayloads(s)[3])

C14_SinglePushIsText ==
    (pt.pc = "done" /\ Len(tx.input) = 1 /\ tx.output = << >>
       /\ Len(script_sig) = 1 /\ IsPush(script_sig[1])
       /\ script_sig[1].data # << >> /\ ValidUtf8(script_sig[1].data))
      => pt.result = Some([ txid |-> Txid(tx), content |-> Text(script_sig[1].data) ])

(***************************************************************************)
(* C15: the classifier follows the ordered rules: nothing when the content *)
(* type is not UTF-8; for text/plain;charset=utf-8, Text(content) when the *)
(* content is UTF-8 and nothing otherwise; Image with the content type as  *)
(* MIME and the content as data when the content type begins with image/;  *)
(* else Unknown(content).  Nothing is returned in exactly the two cases    *)
(* named.  Checked on the buffers parse_inscription_content hands over.    *)
(***************************************************************************)
C15_RuleApplies(ct, c, r) ==
    /\ ~ValidUtf8(ct) => r = None
    /\ (ValidUtf8(ct) /\ ct = TextPlain /\ ValidUtf8(c)) => r = Some(Text(c))
    /\ (ValidUtf8(ct) /\ ct = TextPlain /\ ~ValidUtf8(c)) => r = None
    /\ (ValidUtf8(ct) /\ ct # TextPlain /\ StartsWith(ct, ImagePrefix))
         => r = Some(Image(ct, c))
    /\ (ValidUtf8(ct) /\ ct # TextPlain /\ ~StartsWith(ct, ImagePrefix))
         => r = Some(Unknown(c))
    /\ r = None <=> (~ValidUtf8(ct) \/ (ct = TextPlain /\ ~ValidUtf8(c)))

C15_ClassifierRules ==
    (ps.pc = "done" /\ EnvAccepted(script))
      => C15_RuleApplies(ps.content_type, ps.content, ps.result)

\* an unknown MIME type (two joined text/plain strings) with content that is not
\* UTF-8 was classified Unknown, the content kept raw
C15_Witness ==
    /\ ps.pc = "done"
    /\ EnvAccepted(script)
    /\ ps.content_type = TextPlain \o TextPlain
    /\ ps.content = LeadByte
    /\ ps.result = Some(Unknown(LeadByte))

(***************************************************************************)
(* C16: every Text that parse_transaction returns carries exactly the      *)
(* bytes it was decoded from, the third push of a coinbase input or the    *)
(* content buffer of an output envelope, and those bytes are valid UTF-8.  *)
(***************************************************************************)
\* the byte strings a Text of the transaction can be decoded from
TextSources(t) ==
    { PushPayloads(t.input[i].script_sig)[3] :
        i \in { j \in DOMAIN t.input :
                  /\ t.input[j].previous_output = "null"
                  /\ Len(PushPayloads(t.input[j].script_sig)) >= 3 } }
    \cup { RefContent(t.output[j].script_pubkey) :
             j \in { k \in DOMAIN t.output : EnvAccepted(t.output[k].script_pubkey) } }

C16_TextIsItsBytes ==
    (pt.pc = "done" /\ pt.result # None /\ pt.result.value.content.variant = "Text")
      => /\ ValidUtf8(pt.result.value.content.text)
         /\ pt.result.value.content.text \in TextSources(tx)

\* a coinbase input whose third push is not UTF-8 gave no Text; the Text is the
\* content of the output envelope
C16_Witness ==
    /\ pt.pc = "done"
    /\ Len(tx.input) = 1
    /\ tx.input[1] = TxIn("null", SigBadUtf8)
    /\ Len(tx.output) = 1
    /\ tx.output[1] = TxOut(PkText)
    /\ pt.result # None
    /\ pt.result.value.content = Text(ImagePrefix)

(***************************************************************************)
(* C17: an output script that consists only of a zero form, OP_IF and      *)
(* OP_ENDIF yields Unknown of the empty byte sequence, not nothing.        *)
(***************************************************************************)
C17_EmptyEnvelopeIsUnknown ==
    (ps.pc = "done" /\ Len(script) = 3 /\ script[1] \in ZeroForms
       /\ script[2] = Op(OP_IF) /\ script[3] = Op(OP_ENDIF))
      => ps.result = Some(Unknown(<< >>))

\* <empty push> OP_IF OP_ENDIF was parsed: both buffers empty, Unknown(empty)
C17_Witness ==
    /\ ps.pc = "done"
    /\ script = << PushBytes(<< >>), Op(OP_IF), Op(OP_ENDIF) >>
    /\ ps.content_type = << >>
    /\ ps.content = << >>
    /\ ps.result = Some(Unknown(<< >>))

(***************************************************************************)
(* C18: for a transaction with no coinbase input and no output that        *)
(* contains the ordinal start sequence, parse_transaction returns nothing; *)
(* the signature scripts of its inputs are not inspected, whatever they    *)
(* hold.                                                                   *)
(***************************************************************************)
\* a zero form directly followed by OP_IF occurs somewhere in the script
ContainsStart(s) ==
    \E k \in 1..(Len(s) - 1) : s[k] \in ZeroForms /\ s[k + 1] = Op(OP_IF)

C18_NothingWithoutCoinbaseOrEnvelope ==
    (/\ pt.pc = "done"
     /\ \A i \in DOMAIN tx.input : tx.input[i].previous_output # "null"
     /\ \A j \in DOMAIN tx.output : ~ContainsStart(tx.output[j].script_pubkey))
      => pt.result = None

\* a spending input whose signature script has a third push of valid text, and an
\* output without the start sequence: nothing was returned
C18_Witness ==
    /\ pt.pc = "done"
    /\ Len(tx.input) = 2
    /\ tx.input[1] = TxIn("outpoint", SigText)
    /\ tx.input[2] = TxIn("outpoint", SigImageText)
    /\ Len(tx.output) = 1
    /\ tx.output[1] = TxOut(PkNoEnvelope)
    /\ pt.result = None

(***************************************************************************)
(* C19: the parallel driver refines sequential processing: for every       *)
(* batch, every batch_size >= 1 and every interleaving of the workers the  *)
(* returned vector is the one obtained by taking the blocks one by one in  *)
(* order and the transactions of each block one by one in order.           *)
(***************************************************************************)
\* the transactions of a block one by one
RECURSIVE SequentialBlock(_)
SequentialBlock(txs) ==
    IF txs = << >> THEN << >>
    ELSE (IF FilterMap(Head(txs)) = None THEN << >>
          ELSE << FilterMap(Head(txs)).value >>)
         \o SequentialBlock(Tail(txs))

\* the blocks one by one
RECURSIVE Sequential(_)
Sequential(bl) ==
    IF bl = << >> THEN << >>
    ELSE SequentialBlock(Head(bl).txdata) \o Sequential(Tail(bl))

C19_RefinesSequential ==
    dpc = "returned" =>
        [ k \in 1..Len(returned) |-> returned[k].text ] = Sequential(blocks)

\* one chunk of two blocks; the second block's transaction was parsed first and a
\* transaction without a kept text lies between the two results
C19_Witness ==
    /\ dpc = "returned"
    /\ batch_size = 2
    /\ Len(blocks) = 2
    /\ Len(blocks[1].txdata) = 2
    /\ slots[1].origin = << 2, 1 >>
    /\ slots[3].origin = << 1, 1 >>
    /\ slots[2].value = None
    /\ Len(returned) = 2
    /\ returned[2].origin = << 2, 1 >>

(***************************************************************************)
(* C20: no error propagates out of the driver: for every batch and every   *)
(* batch_size the configuration admits (ProcessingConfig::batch_size is a  *)
(* usize read from the configuration file without validation, so 0 is      *)
(* admitted), process_blocks completes with a result vector and has no     *)
(* failure outcome.                                                        *)
(***************************************************************************)
C20_NoFailureOutcome == dpc # "panicked"

(***************************************************************************)
(* C29: the phase switches from content type to content only when a zero   *)
(* form is the instruction directly after a content-type push: the phase   *)
(* flag is off exactly when the script has such a position and the parser  *)
(* has consumed it, so a zero form elsewhere switches nothing and the      *)
(* phase never switches back; without a switch every push of the envelope  *)
(* is in the content type and the content is empty.                        *)
(***************************************************************************)
C29_SwitchOnlyAfterPush ==
    /\ (ps.pc \in {"loop", "end"})
         => (~ps.reading_content_type
               <=> /\ SeparatorPos(script) # 0
                   /\ Len(script) - Len(ps.rest) >= SeparatorPos(script))
    /\ (ps.pc = "end" /\ ps.reading_content_type)
         => /\ ps.content = << >>
            /\ ps.content_type = ConcatPushes(script, 3, EnvEnd(script) - 1)

\* a zero form before the first non-empty push and one after an intervening
\* opcode: no switch, the push went to the content type
C29_Witness ==
    /\ ps.pc = "end"
    /\ EnvAccepted(script)
    /\ Len(script) = 6
    /\ script[3] = PushBytes(<< >>)
    /\ script[4] = PushBytes(ImagePrefix)
    /\ script[5] = Op(OP_IF)
    /\ script[6] = PushBytes(<< >>)
    /\ ps.reading_content_type
    /\ ps.content_type = ImagePrefix
    /\ ps.content = << >>

RECURSIVE RangeSkipping(_, _, _)
RangeSkipping(lo, hi, skip) ==
    IF lo >= hi THEN << >>
    ELSE (IF lo \in skip THEN << >> ELSE << lo >>) \o RangeSkipping(lo + 1, hi, skip)

BlockHeights(blks) == [ i \in 1..Len(blks) |-> blks[i].height ]

Live == ~scan.mock /\ scan.pc \notin {"idle", "count", "failed"}

\* C21: the driver reuses one worker pool: over any sequence of process_blocks
\* calls at most one thread pool is ever built.
C21_AtMostOnePool == scan.pools <= 1

\* C22: in live mode the block vector handed to process_blocks holds exactly the
\* successfully fetched blocks of the batch in ascending height order; a height
\* whose get_block_hash or get_block failed is left out, and the heights after it,
\* in this batch and in the later ones, are still requested.
C22_FetchedBlocksInOrder ==
    Live =>
      /\ (scan.pc = "fetch")
           => /\ BlockHeights(scan.blocks)
                   = RangeSkipping(scan.current_block, scan.height, scan.failed)
              /\ \A i \in 1..Len(scan.blocks) :
                    scan.blocks[i] = NodeBlock(scan.blocks[i].height)
      /\ (scan.pc = "process")
           => /\ BlockHeights(scan.blocks)
                   = RangeSkipping(scan.current_block, scan.end_block, scan.failed)
              /\ \A h \in scan.failed : scan.current_block <= h /\ h < scan.end_block
      /\ (scan.pc = "done")
           => \A h \in Heights :
                 (scan.start_block <= h /\ h < scan.latest_block) => scan.times[h] >= 1

C22_Witness ==
    /\ Live
    /\ scan.pc = "done"
    /\ scan.start_block = 0
    /\ scan.latest_block = 4
    /\ batch_size = 2
    /\ scan.failed = {2}
    /\ BlockHeights(scan.blocks) = << 3 >>

\* C26: with batch_size >= 1 every batch ends above its start and at
\* min(current_block + batch_size, latest_block), never above latest_block;
\* the batches are contiguous and ascending, so that every height of
\* [start_block, latest_block) is requested exactly once and no other height is;
\* with start_block >= latest_block no batch is processed.
C26_BatchesCoverOnce ==
    (batch_size >= 1 /\ scan.pc \notin {"idle", "count", "failed"}) =>
      /\ (scan.pc \in {"fetch", "process", "store"})
           => /\ scan.end_block > scan.current_block
              /\ scan.end_block <= scan.latest_block
              /\ scan.end_block
                   = Min({scan.current_block + batch_size, scan.latest_block})
      /\ \A h \in Heights :
            /\ scan.times[h] <= 1
            /\ (scan.times[h] = 1)
                 => (scan.start_block <= h /\ h < scan.latest_block)
      /\ (scan.pc = "done")
           => \A h \in Heights :
                 (scan.start_block <= h /\ h < scan.latest_block) => scan.times[h] = 1
      /\ (scan.start_block >= scan.latest_block) => scan.pools = 0

\* C27: in live mode latest_block is what get_block_count returned before the
\* loop and stays that; only heights strictly below it are requested, so the
\* block at height latest_block and the blocks the chain gains later are never
\* requested.
C27_OnlyBelowLatest ==
    [][ /\ (scan.pc = "count" /\ scan'.pc = "loop" /\ ~scan.mock)
             => scan'.latest_block = scan.tip
        /\ (scan.pc \notin {"idle", "count"})
             => scan'.latest_block = scan.latest_block
        /\ (~scan'.mock /\ scan'.pc \notin {"idle", "count", "failed"})
             => /\ scan'.latest_block <= scan'.tip
                /\ \A h \in Heights :
                      (scan'.times[h] > 0) => h < scan'.latest_block ]_vars

C27_Witness ==
    /\ Live
    /\ scan.pc = "done"
    /\ scan.start_block < scan.latest_block
    /\ scan.latest_block < scan.tip
    /\ scan.times[scan.latest_block - 1] = 1
    /\ scan.times[scan.latest_block] = 0

\* C28: batch_size 0 is accepted; with it and start_block < latest_block the
\* first iteration has end_block = current_block, current_block never advances
\* and the scan never completes with success.
C28_ZeroBatchNeverCompletes ==
    (/\ batch_size = 0
     /\ scan.pc \notin {"idle", "count", "failed"}
     /\ scan.start_block < scan.latest_block) =>
      /\ scan.pc \notin {"done", "store"}
      /\ scan.current_block = scan.start_block
      /\ (scan.pc \in {"fetch", "process"})
           => (scan.end_block = scan.current_block /\ scan.blocks = << >>)

C28_Witness ==
    /\ batch_size = 0
    /\ scan.pc = "panicked"
    /\ scan.start_block < scan.latest_block
    /\ scan.end_block = scan.current_block
    /\ scan.current_block = scan.start_block
    /\ scan.pools = 1

(***************************************************************************)
(* Storage and serialization.                                              *)
(***************************************************************************)
\* C23: serialization of an Inscription round-trips: whatever the txid and the
\* content (Text, Image or Unknown), deserializing the serialized form gives an
\* Inscription with the same txid, the same variant and the same payload.
C23_SerdeRoundTrip ==
    ser.pc = "done" => ser.result = Some(ser.value)

C23_Witness ==
    /\ ser.pc = "done"
    /\ ser.value.txid = << 0, 171 >>
    /\ ser.value.content = Image(<< 34 >>, << 10 >>)
    /\ ser.json.entries[1][2] = JStr(<< 97, 98, 48, 48 >>)
    /\ ser.json.entries[2][2].entries[1][2].entries[1][2] = JStr(<< 92, 34 >>)
    /\ ser.result = Some(ser.value)

\* C24: image storage round-trips: after store(txid, mime_type, data) succeeded,
\* get(txid, blake3(data)) returns exactly (mime_type, data), for every
\* mime_type that is valid UTF-8 and begins with "image/".
C24_ImageRoundTrip ==
    (img.pc = "got" /\ img.asked = img.data)
        => img.got = Some(<< img.mime_type, img.data >>)

\* the entries a sequence of successful store calls stands for, timestamps aside
EntriesMatch(entries, calls) ==
    /\ Len(entries) = Len(calls)
    /\ \A i \in 1..Len(calls) :
          /\ entries[i] # None
          /\ entries[i].value.txid = TxidToString(calls[i].txid)
          /\ entries[i].value.content = calls[i].content

AttemptHeights(a) == [ i \in 1..Len(a) |-> a[i].height ]

\* C31: an error of store_inscription does not stop the scan: whatever the
\* outcome, the next inscription of the batch is the next one handed to storage,
\* in the order process_blocks returned them; when the batch is through,
\* current_block becomes end_block and the loop goes on to its test, which ends
\* the scan with success when no height is left; no height of the next batch is
\* requested while an inscription of this one is still to be stored.  (Steps of
\* the node, which only move its chain tip, are left aside.)
C31_StorageErrorIsSkipped ==
    [][ (scan'.tip = scan.tip) =>
        /\ (scan.pc = "store" /\ scan.inscriptions # << >>)
             => /\ scan'.pc = "store"
                /\ scan'.inscriptions = Tail(scan.inscriptions)
                /\ Len(scan'.attempts) = Len(scan.attempts) + 1
                /\ scan'.attempts[Len(scan'.attempts)].height
                      = Head(scan.inscriptions).height
                /\ AttemptHeights(scan'.attempts) \o AttemptHeights(scan'.inscriptions)
                      = AttemptHeights(ProcessBlocksResult(scan.blocks))
                /\ scan'.times = scan.times
                /\ scan'.current_block = scan.current_block
        /\ (scan.pc = "store" /\ scan.inscriptions = << >>)
             => /\ scan'.pc = "loop"
                /\ scan'.current_block = scan.end_block
                /\ AttemptHeights(scan'.attempts)
                      = AttemptHeights(ProcessBlocksResult(scan.blocks))
        /\ (scan.pc = "loop" /\ ~(scan.current_block < scan.latest_block))
             => scan'.pc = "done"
        /\ (scan'.times # scan.times) => scan.inscriptions = << >> ]_vars

C31_Witness ==
    /\ scan.pc = "done"
    /\ ~scan.mock
    /\ scan.current_block = scan.end_block
    /\ scan.end_block = scan.latest_block
    /\ Len(scan.attempts) = 2
    /\ ~scan.attempts[1].ok
    /\ scan.attempts[2].ok
    /\ scan.attempts[1].height < scan.attempts[2].height
    /\ scan.start_block < scan.attempts[1].height

(***************************************************************************)
(* The node client.                                                        *)
(***************************************************************************)
Holders == { t \in Callers : node.task[t] \in Holding }

\* every permit is with the semaphore or with a call inside get_block; nobody
\* waits while a permit is available; the queue holds the waiting tasks, once each
PermitsAccounted ==
    (node.pc = "ready") =>
      /\ node.permits >= 0
      /\ node.permits + Cardinality(Holders) = node.max
      /\ Cardinality(Holders) <= node.max
      /\ (node.queue # << >>) => node.permits = 0
      /\ { node.queue[i] : i \in DOMAIN node.queue }
            = { t \in Callers : node.task[t] = "waiting" }
      /\ \A i, j \in DOMAIN node.queue : (node.queue[i] = node.queue[j]) => i = j
      /\ (Holders = {}) => node.permits = node.max

\* the calls of get_block_hash and get_block_count neither take nor return a permit
PlainCallsTakeNoPermit ==
    \A t \in Callers :
        (/\ node.pc = "ready"
         /\ node'.task[t] # node.task[t]
         /\ (node.task[t] \in {"hash", "count"} \/ node'.task[t] \in {"hash", "count"}))
            => (node'.permits = node.permits /\ node'.queue = node.queue)

\* C32: with max_concurrent_requests = N >= 1, at most N calls of get_block are
\* past the acquire at once; every return of get_block, Ok or Err, gives the
\* permit back, so that with no call inside get_block all N permits are
\* available; get_block_hash and get_block_count take no permit; a call that
\* waits for a permit eventually gets it.
C32_PermitsBoundAndReturned ==
    /\ []PermitsAccounted
    /\ [][PlainCallsTakeNoPermit]_vars
    /\ \A t \in Callers :
          (node.pc = "ready" /\ node.max >= 1 /\ node.task[t] = "waiting")
              ~> (node.task[t] \in Holding)

C32_Witness ==
    /\ node.pc = "ready"
    /\ node.max = 1
    /\ node.permits = 0
    /\ node.task[1] = "err"
    /\ node.task[2] = "rpc"
    /\ node.task[3] = "hash"
    /\ node.queue = << >>

====
